---- MODULE Spec2Model ----
(***************************************************************************)
(* The fluid simulator of components/fluid-reveal: the FluidSimulation     *)
(* class (FluidSimulation.ts) and the physics scene variant                *)
(* (FluidMaskPlane of FluidMaskScene).  The GPU is modelled by what the    *)
(* code can observe of it: which texture is bound to which unit, which     *)
(* uniform holds which value, which buffer each draw samples and writes.   *)
(* Numbers that are fractions in the code are exact rationals <<n, d>>.    *)
(***************************************************************************)
EXTENDS Integers, Sequences, FiniteSets, TLC

VARIABLES
    variant,         \* "none", then "sim": a FluidSimulation; "scene": a FluidMaskPlane
    canvas,          \* canvas.width/height = gl.drawingBufferWidth/Height
    ext,             \* this.ext (supportLinearFiltering)
    config,          \* this.config
    dye,             \* this.dye        (DoubleFBO)
    velocity,        \* this.velocity   (DoubleFBO)
    divergence,      \* this.divergence (FBO)
    curl,            \* this.curl       (FBO)
    pressure,        \* this.pressure   (DoubleFBO)
    pointers,        \* this.pointers[0]
    lastUpdateTime,  \* this.lastUpdateTime, milliseconds
    lastWidth,       \* this.lastWidth
    lastHeight,      \* this.lastHeight
    animationFrameId, \* this.animationFrameId (NoFrame: null)
    window,          \* the animation frame callbacks the browser holds pending
    component,       \* the React component around the simulation, if any
    gl,              \* the WebGL context state the class drives
    draws,           \* the draw calls issued by the latest handler, in order
    calls,           \* the methods the latest handler ran (blit, swap too), in order
    events,          \* history: the pointer events since the previous update(),
                     \* and whether any was reported since construction
    host,            \* the sets this behaviour's inputs are drawn from
    scene            \* the state of a FluidMaskPlane (refs, size, pointer)

vars == <<variant, canvas, ext, config, dye, velocity, divergence, curl,
          pressure, pointers, lastUpdateTime, lastWidth, lastHeight,
          animationFrameId, window, gl, draws, calls, events, host, scene,
          component>>

-----------------------------------------------------------------------------
(* Bounds of the model *)

\* reallocations explored: textures are never reused, so their ids grow
MaxGenerations == 3
\* config.pressureIterations ranges over 0..MaxIterations
MaxFrames == 4

MaxMounts == 2

MaxIterations == 2

-----------------------------------------------------------------------------
(* Exact rationals <<n, d>>, d > 0, in lowest terms *)

RECURSIVE Gcd(_, _)
Gcd(a, b) == IF b = 0 THEN a ELSE Gcd(b, a % b)

Abs(x) == IF x < 0 THEN -x ELSE x

RNorm(n, d) ==
    LET sn == IF d < 0 THEN -n ELSE n
        sd == Abs(d)
        g  == Gcd(Abs(sn), sd)
    IN  <<sn \div g, sd \div g>>

RInt(k) == <<k, 1>>
RAdd(a, b) == RNorm(a[1] * b[2] + b[1] * a[2], a[2] * b[2])
RSub(a, b) == RNorm(a[1] * b[2] - b[1] * a[2], a[2] * b[2])
RMul(a, b) == RNorm(a[1] * b[1], a[2] * b[2])
RDiv(a, b) == RNorm(a[1] * b[2], a[2] * b[1])
RLess(a, b) == a[1] * b[2] < b[1] * a[2]

\* Math.min
Min(a, b) == IF b < a THEN b ELSE a

\* Math.round: the nearest integer, halves towards +infinity
Round(a) == (2 * a[1] + a[2]) \div (2 * a[2])

-----------------------------------------------------------------------------
(* JavaScript numbers.  The grid dimensions are computed with IEEE 754      *)
(* binary64 arithmetic.  A positive double is <<hi, lo, e>>: the value      *)
(* (hi * 2^27 + lo) * 2^e with a mantissa of 53 bits, 2^25 <= hi < 2^26     *)
(* and 0 <= lo < 2^27 (the mantissa does not fit an integer of the          *)
(* checker).                                                                *)

\* 2^27
Word == 134217728

\* the element of a singleton; the element is evaluated once
The(set) == CHOOSE v \in set : TRUE

\* the number of bits of an integer 0 < n < 2^27
BitLength(n) == CHOOSE k \in 1..27 : (2 ^ (k - 1)) <= n /\ n \div 2 < (2 ^ (k - 1))

\* round to the nearest mantissa, ties to even: guard is the first discarded
\* bit, rest tells whether a later one is set; rounding up adds one to the
\* mantissa, which is renormalised when it reaches 2^53
FNearest(hi, lo, e, guard, rest) ==
    IF ~(guard /\ (rest \/ lo % 2 = 1)) THEN <<hi, lo, e>>
    ELSE IF lo + 1 < Word THEN <<hi, lo + 1, e>>
    ELSE IF hi + 1 < Word \div 2 THEN <<hi + 1, 0, e>>
    ELSE <<Word \div 4, 0, e + 1>>

\* an integer 0 < n < 2^27 as a double
FInt(n) ==
    IF BitLength(n) = 27
    THEN <<n \div 2, (n % 2) * (Word \div 2), -26>>
    ELSE <<n * (2 ^ (26 - BitLength(n))), 0, BitLength(n) - 53>>

\* n steps of the long division by the mantissa d: st is the remainder and
\* the quotient so far, <<rhi, rlo, qhi, qlo>>; a step doubles both (r, q)
\* and moves d from the remainder to the quotient when it fits
RECURSIVE divSteps(_, _, _)
divSteps(st, d, n) ==
    IF n = 1
    THEN The({IF r[1] < d[1] \/ (r[1] = d[1] /\ r[2] < d[2])
              THEN <<r[1], r[2], q[1], q[2]>>
              ELSE <<r[1] - d[1] - (IF r[2] < d[2] THEN 1 ELSE 0),
                     ((r[2] - d[2]) + Word) % Word, q[1], q[2] + 1>> :
                 r \in {<<(2 * st[1]) + ((2 * st[2]) \div Word), (2 * st[2]) % Word>>},
                 q \in {<<(2 * st[3]) + ((2 * st[4]) \div Word), (2 * st[4]) % Word>>}})
    ELSE The({divSteps(v, d, n - (n \div 2)) : v \in {divSteps(st, d, n \div 2)}})

\* x / y: the quotient of the mantissas to 54 bits after the point, which
\* has 55 or 54 bits, rounded to 53
FDiv(x, y) ==
    The({IF st[3] >= Word
         THEN FNearest(st[3] \div 4, (st[4] \div 4) + ((st[3] % 4) * (Word \div 4)),
                       x[3] - y[3] - 52,
                       st[4] % 4 >= 2,
                       st[4] % 2 = 1 \/ st[1] # 0 \/ st[2] # 0)
         ELSE FNearest(st[3] \div 2, (st[4] \div 2) + ((st[3] % 2) * (Word \div 2)),
                       x[3] - y[3] - 53,
                       st[4] % 2 = 1,
                       st[1] # 0 \/ st[2] # 0) :
            st \in {divSteps(IF x[1] < y[1] \/ (x[1] = y[1] /\ x[2] < y[2])
                             THEN <<x[1], x[2], 0, 0>>
                             ELSE <<x[1] - y[1] - (IF x[2] < y[2] THEN 1 ELSE 0),
                                    ((x[2] - y[2]) + Word) % Word, 0, 1>>,
                             <<y[1], y[2]>>, 54)}})

\* the double w / h for integers 0 < w, h < 2^15: with both scaled to one
\* bit length, z = <<ws, hs, e>> with ws / hs in [1, 2) and
\* w / h = ws / hs * 2^e, the 52 bits after the point are four digits of 13
\* bits of the long division, with the remainders r1 .. r4, rounded on what
\* remains
FRatio(w, h) ==
    The({The({The({The({The({
        FNearest((Word \div 4) + ((((z[1] - z[2]) * 8192) \div z[2]) * 4096)
                               + (((r1 * 8192) \div z[2]) \div 2),
                 ((((r1 * 8192) \div z[2]) % 2) * (Word \div 2))
                     + (((r2 * 8192) \div z[2]) * 8192)
                     + ((r3 * 8192) \div z[2]),
                 z[3] - 52,
                 2 * r4 >= z[2],
                 2 * r4 # z[2]) :
            r4 \in {(r3 * 8192) % z[2]}}) :
            r3 \in {(r2 * 8192) % z[2]}}) :
            r2 \in {(r1 * 8192) % z[2]}}) :
            r1 \in {((z[1] - z[2]) * 8192) % z[2]}}) :
            z \in {IF w * (2 ^ (l[3] - l[1])) < h * (2 ^ (l[3] - l[2]))
                   THEN <<2 * w * (2 ^ (l[3] - l[1])), h * (2 ^ (l[3] - l[2])),
                          l[1] - l[2] - 1>>
                   ELSE <<w * (2 ^ (l[3] - l[1])), h * (2 ^ (l[3] - l[2])),
                          l[1] - l[2]>> :
                      l \in {<<lw, lh, IF lw < lh THEN lh ELSE lw>> :
                                lw \in {BitLength(w)}, lh \in {BitLength(h)}}}})

\* v * k as <<high, low>> words, for 0 <= v < 2^27 and 0 < k < 2^15
WordTimes(v, k) ==
    The({<<(p \div 8192) + (low \div Word), low % Word>> :
            low \in {((p % 8192) * 16384) + ((v % 16384) * k) :
                        p \in {(v \div 16384) * k}},
            p \in {(v \div 16384) * k}})

\* k * x for an integer 0 < k < 2^15: the product of the mantissa is the
\* three words w = <<top, mid, low>>, of which the s bits above the 53rd
\* are rounded away
FTimesInt(k, x) ==
    The({The({IF s = 0 THEN <<w[2], w[3], x[3]>>
              ELSE FNearest((w[2] \div (2 ^ s)) + ((w[1] % (2 ^ s)) * (2 ^ (27 - s))),
                            (w[3] \div (2 ^ s)) + ((w[2] % (2 ^ s)) * (2 ^ (27 - s))),
                            x[3] + s,
                            (w[3] \div (2 ^ (s - 1))) % 2 = 1,
                            w[3] % (2 ^ (s - 1)) # 0) :
                 s \in {IF w[1] > 0 THEN BitLength(w[1]) + 1
                        ELSE IF w[2] >= Word \div 2 THEN 1 ELSE 0}}) :
            w \in {<<h[1] + ((h[2] + l[1]) \div Word), (h[2] + l[1]) % Word, l[2]>> :
                      h \in {WordTimes(x[1], k)}, l \in {WordTimes(x[2], k)}}})

\* Math.round(x) for 1/2 <= x < 2^29: floor((floor(2 x) + 1) / 2)
FRoundToInt(x) ==
    IF -(x[3] + 1) >= 27
    THEN ((x[1] \div (2 ^ (-(x[3] + 1) - 27))) + 1) \div 2
    ELSE (((x[1] * (2 ^ (27 + x[3] + 1))) + (x[2] \div (2 ^ (-(x[3] + 1))))) + 1) \div 2

-----------------------------------------------------------------------------
(* The shader programs: their uniforms, and which of them are samplers *)

Programs == {"splat", "curl", "vorticity", "divergence", "clear", "pressure",
             "gradientSubtract", "advection", "display"}

UniformsOf(p) ==
    CASE p = "splat"            -> {"uTarget", "aspectRatio", "point", "color", "radius"}
      [] p = "curl"             -> {"texelSize", "uVelocity"}
      [] p = "vorticity"        -> {"texelSize", "uVelocity", "uCurl", "curl", "dt"}
      [] p = "divergence"       -> {"texelSize", "uVelocity"}
      [] p = "clear"            -> {"uTexture", "value"}
      [] p = "pressure"         -> {"texelSize", "uDivergence", "uPressure"}
      [] p = "gradientSubtract" -> {"texelSize", "uPressure", "uVelocity"}
      [] p = "advection"        -> {"texelSize", "dyeTexelSize", "uVelocity",
                                    "uSource", "dt", "dissipation"}
      [] p = "display"          -> {"uTexture"}

Samplers(p) ==
    UniformsOf(p) \cap {"uTarget", "uVelocity", "uCurl", "uTexture",
                        "uDivergence", "uPressure", "uSource"}

\* the uniform by which the scene's advectionShader scales the backtrace:
\* coord = vUv - dt * texture2D(uVelocity, vUv).xy * texelSize
sceneBacktraceUniform == "texelSize"

\* the same for the advectionShader of FluidSimulation (./shaders):
\* sample at uv - dt * velocity(uv) * texelSize
simBacktraceUniform == "texelSize"

-----------------------------------------------------------------------------
(* FluidConfig *)

defaultConfig ==
    [simResolution       |-> 128,
     dyeResolution       |-> 512,
     densityDissipation  |-> <<97, 100>>,
     velocityDissipation |-> <<49, 50>>,
     pressure            |-> <<4, 5>>,
     pressureIterations  |-> 20,
     curl                |-> 30,
     splatRadius         |-> <<1, 4>>,
     splatForce          |-> 6000,
     colorR              |-> 1,
     colorG              |-> 1,
     colorB              |-> 1]

\* { ...a, ...b }
Merge(a, b) ==
    [k \in DOMAIN a \cup DOMAIN b |-> IF k \in DOMAIN b THEN b[k] ELSE a[k]]

-----------------------------------------------------------------------------
(* GL state and buffers.  A simulation state s is the record of the         *)
(* variables; each method of the class is an operator from s to s.          *)

NullTexture == 0

\* this.animationFrameId = null
NoFrame == 0

\* a window with no animation frame callback pending, none requested yet
NoCallbacks == [pending |-> {}, requested |-> 0]

This ==
    [canvas |-> canvas, ext |-> ext, config |-> config, dye |-> dye,
     velocity |-> velocity, divergence |-> divergence, curl |-> curl,
     pressure |-> pressure, pointers |-> pointers,
     lastUpdateTime |-> lastUpdateTime, lastWidth |-> lastWidth,
     lastHeight |-> lastHeight, animationFrameId |-> animationFrameId,
     window |-> window, gl |-> gl, draws |-> draws, calls |-> calls]

Commit(s) ==
    /\ canvas' = s.canvas
    /\ ext' = s.ext
    /\ config' = s.config
    /\ dye' = s.dye
    /\ velocity' = s.velocity
    /\ divergence' = s.divergence
    /\ curl' = s.curl
    /\ pressure' = s.pressure
    /\ pointers' = s.pointers
    /\ lastUpdateTime' = s.lastUpdateTime
    /\ lastWidth' = s.lastWidth
    /\ lastHeight' = s.lastHeight
    /\ animationFrameId' = s.animationFrameId
    /\ window' = s.window
    /\ gl' = s.gl
    /\ draws' = s.draws
    /\ calls' = s.calls

\* the data of a texture: the program whose draw wrote it last ("created"
\* for a new texture) and whether it holds the current value of its field
Data(by, current) == [by |-> by, current |-> current]

Discarded == Data("discarded", FALSE)

DataOf(g, tex) ==
    IF tex \in DOMAIN g.content THEN g.content[tex] ELSE Discarded

\* the field (if any) whose buffer a texture is
FieldOf(s, tex) ==
    CASE tex = NullTexture -> "none"
      [] tex \in {s.dye.read.texture, s.dye.write.texture} -> "dye"
      [] tex \in {s.velocity.read.texture, s.velocity.write.texture} -> "velocity"
      [] tex \in {s.pressure.read.texture, s.pressure.write.texture} -> "pressure"
      [] tex = s.divergence.texture -> "divergence"
      [] tex = s.curl.texture -> "curl"
      [] OTHER -> "none"

NoFBO ==
    [texture |-> NullTexture, width |-> 0, height |-> 0,
     texelSizeX |-> <<0, 1>>, texelSizeY |-> <<0, 1>>, filter |-> "NEAREST"]

NoDoubleFBO ==
    [width |-> 0, height |-> 0, texelSizeX |-> <<0, 1>>, texelSizeY |-> <<0, 1>>,
     read |-> NoFBO, write |-> NoFBO]

\* the context after createFBO made fbo: a new texture, bound to unit 0 and
\* cleared, by gl.clear(gl.COLOR_BUFFER_BIT), to the context's clear colour
created(g, fbo) ==
    [g EXCEPT !.textures = fbo.texture,
              !.units[0] = fbo.texture,
              !.content = [t \in DOMAIN @ \cup {fbo.texture} |->
                   IF t = fbo.texture THEN Data("created", TRUE) ELSE @[t]],
              !.cleared = [t \in DOMAIN @ \cup {fbo.texture} |->
                   IF t = fbo.texture THEN g.clearColor ELSE @[t]],
              !.live = @ \cup {fbo.texture}]

\* createFBO(w, h, ..., param): the FBO it returns in context g
createFBO(g, w, h, param) ==
    [texture |-> g.textures + 1, width |-> w, height |-> h,
     texelSizeX |-> RNorm(1, w), texelSizeY |-> RNorm(1, h),
     filter |-> param]

\* createDoubleFBO(w, h, ..., param): fbo1 is read, fbo2 is write
createDoubleFBO(g, w, h, param) ==
    LET fbo1 == createFBO(g, w, h, param)
        fbo2 == createFBO(created(g, fbo1), w, h, param)
    IN  [width |-> w, height |-> h,
         texelSizeX |-> fbo1.texelSizeX, texelSizeY |-> fbo1.texelSizeY,
         read |-> fbo1, write |-> fbo2]

\* a swap that forgets to move the old read buffer to write
swapKeepsWrite(d) == [d EXCEPT !.read = d.write]

\* a swap that copies read into write
swapCopiesRead(d) == [d EXCEPT !.write = d.read]

\* DoubleFBO.swap
swap(d) == [d EXCEPT !.read = d.write, !.write = d.read]

\* the buffer an expression of the code denotes when it is evaluated
fboOf(s, e) ==
    CASE e = "dye.read"       -> s.dye.read
      [] e = "dye.write"      -> s.dye.write
      [] e = "velocity.read"  -> s.velocity.read
      [] e = "velocity.write" -> s.velocity.write
      [] e = "pressure.read"  -> s.pressure.read
      [] e = "pressure.write" -> s.pressure.write
      [] e = "divergence"     -> s.divergence
      [] e = "curl"           -> s.curl
      [] e = "null"           -> NoFBO

\* program.bind()
bind(s, p) == [s EXCEPT !.gl.program = p]

\* gl.uniform*(program.uniforms[name], v) on the bound program
uniform(s, name, v) == [s EXCEPT !.gl.uniforms[s.gl.program][name] = v]

\* gl.uniform1i(program.uniforms[name], fbo.attach(id)): the texture of fbo
\* is bound to unit id and the sampler is given the unit
sampler(s, name, fbo, id) ==
    [s EXCEPT !.gl.units[id] = fbo.texture,
              !.gl.uniforms[s.gl.program][name] = id]

\* blit(target): one draw of the bound program into target (NoFBO: the canvas)
blit(s, target) ==
    LET p == s.gl.program
        f == FieldOf(s, target.texture)
        tex(u) == s.gl.units[s.gl.uniforms[p][u]]
        d == [program  |-> p,
              target   |-> target.texture,
              field    |-> f,
              samples  |-> [u \in Samplers(p) |-> tex(u)],
              read     |-> [u \in Samplers(p) |-> DataOf(s.gl, tex(u))],
              from     |-> [u \in Samplers(p) |-> FieldOf(s, tex(u))],
              uniforms |-> s.gl.uniforms[p],
              blend    |-> s.gl.blend]
    IN  [s EXCEPT !.draws = Append(@, d),
                  !.gl.content = [t \in DOMAIN @ |->
                      IF t = target.texture THEN Data(p, TRUE)
                      ELSE IF f # "none" /\ FieldOf(s, t) = f
                           THEN [@[t] EXCEPT !.current = FALSE]
                      ELSE @[t]]]

\* gl.disable(gl.BLEND), gl.enable(gl.BLEND)
setBlend(s, on) == [s EXCEPT !.gl.blend = on]

\* a method was entered
call(s, name) == [s EXCEPT !.calls = Append(@, name)]

-----------------------------------------------------------------------------
(* FluidSimulation: allocation *)

\* getResolution without the inversion of a ratio below 1
getResolutionNotInverted(s, resolution) ==
    The({IF s.canvas.width > s.canvas.height
         THEN [width |-> FRoundToInt(FTimesInt(resolution, aspectRatio)),
               height |-> Round(RInt(resolution))]
         ELSE [width |-> Round(RInt(resolution)),
               height |-> FRoundToInt(FTimesInt(resolution, aspectRatio))] :
            aspectRatio \in {FRatio(s.canvas.width, s.canvas.height)}})

\* getResolution(resolution), on a drawable of positive width and height:
\* aspectRatio = w / h, inverted as 1.0 / aspectRatio when below 1 (a double
\* is below 1 when its exponent is below -52), and
\* max = Math.round(resolution * aspectRatio), in double arithmetic
getResolution(s, resolution) ==
    The({IF s.canvas.width > s.canvas.height
         THEN [width |-> FRoundToInt(FTimesInt(resolution, aspectRatio)),
               height |-> Round(RInt(resolution))]
         ELSE [width |-> Round(RInt(resolution)),
               height |-> FRoundToInt(FTimesInt(resolution, aspectRatio))] :
            aspectRatio \in
                {IF ratio[3] < -52 THEN FDiv(FInt(1), ratio) ELSE ratio :
                    ratio \in {FRatio(s.canvas.width, s.canvas.height)}}})

\* gl.LINEAR where linear filtering is supported, gl.NEAREST otherwise
filtering(s) == IF s.ext.supportLinearFiltering THEN "LINEAR" ELSE "NEAREST"

\* this.dye = this.createDoubleFBO(dyeRes.width, dyeRes.height, ...)
allocateDye(s) ==
    LET dyeRes == getResolution(s, s.config.dyeResolution)
        d == createDoubleFBO(s.gl, dyeRes.width, dyeRes.height, filtering(s))
    IN  [s EXCEPT !.dye = d, !.gl = created(created(@, d.read), d.write)]

\* this.velocity = this.createDoubleFBO(simRes.width, simRes.height, ...)
allocateVelocity(s) ==
    LET simRes == getResolution(s, s.config.simResolution)
        d == createDoubleFBO(s.gl, simRes.width, simRes.height, filtering(s))
    IN  [s EXCEPT !.velocity = d, !.gl = created(created(@, d.read), d.write)]

\* this.divergence = this.createFBO(simRes.width, simRes.height, ...)
allocateDivergence(s) ==
    LET simRes == getResolution(s, s.config.simResolution)
        fbo == createFBO(s.gl, simRes.width, simRes.height, "NEAREST")
    IN  [s EXCEPT !.divergence = fbo, !.gl = created(@, fbo)]

\* this.curl = this.createFBO(simRes.width, simRes.height, ...)
allocateCurl(s) ==
    LET simRes == getResolution(s, s.config.simResolution)
        fbo == createFBO(s.gl, simRes.width, simRes.height, "NEAREST")
    IN  [s EXCEPT !.curl = fbo, !.gl = created(@, fbo)]

\* this.pressure = this.createDoubleFBO(simRes.width, simRes.height, ...)
allocatePressure(s) ==
    LET simRes == getResolution(s, s.config.simResolution)
        d == createDoubleFBO(s.gl, simRes.width, simRes.height, "NEAREST")
    IN  [s EXCEPT !.pressure = d, !.gl = created(created(@, d.read), d.write)]

\* the buffers no field holds any more are out of the simulation's reach
unreferenced(s) ==
    [s EXCEPT !.gl.content =
                  [t \in {x \in DOMAIN @ : FieldOf(s, x) # "none"} |-> @[t]],
              !.gl.cleared =
                  [t \in {x \in DOMAIN @ : FieldOf(s, x) # "none"} |-> @[t]]]

\* initFramebuffers(): all five fields anew
initFramebuffers(s) ==
    unreferenced(allocatePressure(allocateCurl(allocateDivergence(
        allocateVelocity(allocateDye(call(s, "initFramebuffers")))))))

\* a resize that lets go of the buffers before it looks at the size
resizedDropsBuffers(s) ==
    IF s.canvas.width > 0 /\ s.canvas.height > 0
    THEN initFramebuffers([s EXCEPT !.lastWidth = s.canvas.width,
                                    !.lastHeight = s.canvas.height])
    ELSE [s EXCEPT !.lastWidth = s.canvas.width, !.lastHeight = s.canvas.height,
                   !.dye = NoDoubleFBO, !.velocity = NoDoubleFBO,
                   !.pressure = NoDoubleFBO, !.divergence = NoFBO,
                   !.curl = NoFBO]

\* the size changed: this.lastWidth = width; this.lastHeight = height and,
\* on a drawable with an area, initFramebuffers()
resized(s) ==
    IF s.canvas.width > 0 /\ s.canvas.height > 0
    THEN initFramebuffers([s EXCEPT !.lastWidth = s.canvas.width,
                                    !.lastHeight = s.canvas.height])
    ELSE [s EXCEPT !.lastWidth = s.canvas.width, !.lastHeight = s.canvas.height]

\* resize()
resize(s) ==
    IF s.canvas.width # s.lastWidth \/ s.canvas.height # s.lastHeight
    THEN resized(call(s, "resize"))
    ELSE call(s, "resize")

-----------------------------------------------------------------------------
(* FluidSimulation: pointer *)

\* createPointer()
createPointer(cfg) ==
    [id |-> -1,
     texcoordX |-> <<0, 1>>, texcoordY |-> <<0, 1>>,
     prevTexcoordX |-> <<0, 1>>, prevTexcoordY |-> <<0, 1>>,
     deltaX |-> <<0, 1>>, deltaY |-> <<0, 1>>,
     down |-> FALSE, moved |-> FALSE,
     color |-> [r |-> cfg.colorR, g |-> cfg.colorG, b |-> cfg.colorB]]

\* a correction of the x delta on the wide drawable instead of the narrow
correctDeltaXWide(s, delta) ==
    LET aspectRatio == RNorm(s.canvas.width, s.canvas.height)
    IN  IF RLess(RInt(1), aspectRatio) THEN RMul(delta, aspectRatio) ELSE delta

\* correctDeltaX(delta)
correctDeltaX(s, delta) ==
    LET aspectRatio == RNorm(s.canvas.width, s.canvas.height)
    IN  IF RLess(aspectRatio, RInt(1)) THEN RMul(delta, aspectRatio) ELSE delta

\* a correction of the y delta whatever the proportions
correctDeltaYUnconditional(s, delta) ==
    RDiv(delta, RNorm(s.canvas.width, s.canvas.height))

\* correctDeltaY(delta)
correctDeltaY(s, delta) ==
    LET aspectRatio == RNorm(s.canvas.width, s.canvas.height)
    IN  IF RLess(RInt(1), aspectRatio) THEN RDiv(delta, aspectRatio) ELSE delta

\* correctRadius(radius)
correctRadius(s, radius) ==
    LET aspectRatio == RNorm(s.canvas.width, s.canvas.height)
    IN  IF RLess(RInt(1), aspectRatio) THEN RMul(radius, aspectRatio) ELSE radius

\* updatePointerDownData(posX, posY)
updatePointerDownData(s, posX, posY) ==
    LET x == RNorm(posX, s.canvas.width)
        y == RSub(RInt(1), RNorm(posY, s.canvas.height))
    IN  [call(s, "updatePointerDownData") EXCEPT !.pointers =
            [@ EXCEPT !.down = TRUE, !.moved = FALSE,
                      !.texcoordX = x, !.texcoordY = y,
                      !.prevTexcoordX = x, !.prevTexcoordY = y,
                      !.deltaX = <<0, 1>>, !.deltaY = <<0, 1>>,
                      !.color = [r |-> s.config.colorR, g |-> s.config.colorG,
                                 b |-> s.config.colorB]]]

\* an updatePointerMoveData that keeps the drawable's Y, origin top-left
updatePointerMoveDataUnflipped(s, posX, posY) ==
    LET p == s.pointers
        x == RNorm(posX, s.canvas.width)
        y == RNorm(posY, s.canvas.height)
        dx == correctDeltaX(s, RSub(x, p.texcoordX))
        dy == correctDeltaY(s, RSub(y, p.texcoordY))
    IN  [call(s, "updatePointerMoveData") EXCEPT !.pointers =
            [@ EXCEPT !.prevTexcoordX = p.texcoordX, !.prevTexcoordY = p.texcoordY,
                      !.texcoordX = x, !.texcoordY = y,
                      !.deltaX = dx, !.deltaY = dy,
                      !.moved = (Abs(dx[1]) > 0 \/ Abs(dy[1]) > 0)]]

\* updatePointerMoveData(posX, posY)
updatePointerMoveData(s, posX, posY) ==
    LET p == s.pointers
        x == RNorm(posX, s.canvas.width)
        y == RSub(RInt(1), RNorm(posY, s.canvas.height))
        dx == correctDeltaX(s, RSub(x, p.texcoordX))
        dy == correctDeltaY(s, RSub(y, p.texcoordY))
    IN  [call(s, "updatePointerMoveData") EXCEPT !.pointers =
            [@ EXCEPT !.prevTexcoordX = p.texcoordX, !.prevTexcoordY = p.texcoordY,
                      !.texcoordX = x, !.texcoordY = y,
                      !.deltaX = dx, !.deltaY = dy,
                      !.moved = (Abs(dx[1]) > 0 \/ Abs(dy[1]) > 0)]]

\* updatePointerUpData()
updatePointerUpData(s) ==
    [call(s, "updatePointerUpData") EXCEPT !.pointers.down = FALSE]

-----------------------------------------------------------------------------
(* FluidSimulation: splat and step.  The body of a method that drives the  *)
(* GPU is the sequence of its statements; an expression of the code that   *)
(* reads the simulation ("velocity.read") is evaluated when its statement  *)
(* runs.                                                                    *)

\* the statements
Bind(p) == [op |-> "bind", program |-> p]
Uniform(name, v) == [op |-> "uniform", name |-> name, value |-> v]
UniformOf(name, e) == [op |-> "uniformOf", name |-> name, value |-> e]
Sampler(name, e, id) == [op |-> "sampler", name |-> name, fbo |-> e, unit |-> id]
Blit(e) == [op |-> "blit", target |-> e]
Swap(field) == [op |-> "swap", field |-> field]
Blend(on) == [op |-> "blend", on |-> on]

\* the value an expression of the code has when it is evaluated
valueOf(s, e) ==
    CASE e = "velocity.texelSize" -> <<s.velocity.texelSizeX, s.velocity.texelSizeY>>
      [] e = "dye.texelSize" -> <<s.dye.texelSizeX, s.dye.texelSizeY>>
      [] e = "canvas.width / canvas.height" -> RNorm(s.canvas.width, s.canvas.height)
      [] e = "correctRadius(config.splatRadius / 100)" ->
             correctRadius(s, RDiv(s.config.splatRadius, RInt(100)))
      [] e = "config.curl" -> s.config.curl
      [] e = "config.pressure" -> s.config.pressure
      [] e = "config.velocityDissipation" -> s.config.velocityDissipation
      [] e = "config.densityDissipation" -> s.config.densityDissipation

\* one statement
exec(s, i) ==
    CASE i.op = "bind"      -> bind(s, i.program)
      [] i.op = "uniform"   -> uniform(s, i.name, i.value)
      [] i.op = "uniformOf" -> uniform(s, i.name, valueOf(s, i.value))
      [] i.op = "sampler"   -> sampler(s, i.name, fboOf(s, i.fbo), i.unit)
      [] i.op = "blit"      -> blit(call(s, "blit"), fboOf(s, i.target))
      [] i.op = "blend"     -> setBlend(s, i.on)
      [] i.op = "swap"      ->
             CASE i.field = "velocity" ->
                      [call(s, "velocity.swap") EXCEPT !.velocity = swap(@)]
               [] i.field = "dye" ->
                      [call(s, "dye.swap") EXCEPT !.dye = swap(@)]
               [] i.field = "pressure" ->
                      [call(s, "pressure.swap") EXCEPT !.pressure = swap(@)]

\* the statements one after the other, each on the state the one before it
\* left (DOMAIN s: a statement has run before the next one starts); the
\* first half of the statements, then the second half
RECURSIVE run(_, _)
run(s, statements) ==
    IF statements = <<>> \/ DOMAIN s = {} THEN s
    ELSE IF Len(statements) = 1 THEN exec(s, statements[1])
    ELSE run(run(s, SubSeq(statements, 1, Len(statements) \div 2)),
             SubSeq(statements, Len(statements) \div 2 + 1, Len(statements)))

\* the exponent of the splat shader's falloff at the point p of the field:
\* the shader adds exp(-|p - point|^2 / radius) * color to uTarget
splatFalloffExponent(p, point, radius) ==
    RDiv(RAdd(RMul(RSub(p[1], point[1]), RSub(p[1], point[1])),
              RMul(RSub(p[2], point[2]), RSub(p[2], point[2]))),
         radius)

\* the same exponent in the scene's splatShader, which scales the x distance:
\* p = vUv - point; p.x *= aspectRatio; exp(-dot(p, p) / radius)
sceneSplatFalloffExponent(p, point, radius, aspectRatio) ==
    RDiv(RAdd(RMul(RMul(RSub(p[1], point[1]), aspectRatio),
                   RMul(RSub(p[1], point[1]), aspectRatio)),
              RMul(RSub(p[2], point[2]), RSub(p[2], point[2]))),
         radius)

\* a splat into the velocity field alone
splatVelocityOnly(x, y, dx, dy, color) ==
    <<Bind("splat"),
      Sampler("uTarget", "velocity.read", 0),
      UniformOf("aspectRatio", "canvas.width / canvas.height"),
      Uniform("point", <<x, y>>),
      Uniform("color", <<dx, dy, RInt(0)>>),
      UniformOf("radius", "correctRadius(config.splatRadius / 100)"),
      Blit("velocity.write"),
      Swap("velocity")>>

\* splat(x, y, dx, dy, color)
splat(x, y, dx, dy, color) ==
    <<Bind("splat"),
      Sampler("uTarget", "velocity.read", 0),
      UniformOf("aspectRatio", "canvas.width / canvas.height"),
      Uniform("point", <<x, y>>),
      Uniform("color", <<dx, dy, RInt(0)>>),
      UniformOf("radius", "correctRadius(config.splatRadius / 100)"),
      Blit("velocity.write"),
      Swap("velocity"),
      Sampler("uTarget", "dye.read", 0),
      Uniform("color", <<RInt(color.r), RInt(color.g), RInt(color.b)>>),
      Blit("dye.write"),
      Swap("dye")>>

\* step: Curl
stepCurl ==
    <<Bind("curl"),
      UniformOf("texelSize", "velocity.texelSize"),
      Sampler("uVelocity", "velocity.read", 0),
      Blit("curl")>>

\* the vorticity pass without its swap
stepVorticityUnswapped(dt) ==
    <<Bind("vorticity"),
      UniformOf("texelSize", "velocity.texelSize"),
      Sampler("uVelocity", "velocity.read", 0),
      Sampler("uCurl", "curl", 1),
      UniformOf("curl", "config.curl"),
      Uniform("dt", dt),
      Blit("velocity.write")>>

\* step: Vorticity
stepVorticity(dt) ==
    <<Bind("vorticity"),
      UniformOf("texelSize", "velocity.texelSize"),
      Sampler("uVelocity", "velocity.read", 0),
      Sampler("uCurl", "curl", 1),
      UniformOf("curl", "config.curl"),
      Uniform("dt", dt),
      Blit("velocity.write"),
      Swap("velocity")>>

\* step: Divergence
stepDivergence ==
    <<Bind("divergence"),
      UniformOf("texelSize", "velocity.texelSize"),
      Sampler("uVelocity", "velocity.read", 0),
      Blit("divergence")>>

\* step: Clear pressure
stepClearPressure ==
    <<Bind("clear"),
      Sampler("uTexture", "pressure.read", 0),
      UniformOf("value", "config.pressure"),
      Blit("pressure.write"),
      Swap("pressure")>>

\* step: one turn of the Pressure loop
pressureIteration ==
    <<Sampler("uPressure", "pressure.read", 1),
      Blit("pressure.write"),
      Swap("pressure")>>

\* the pressure loop with an off-by-one bound (i <= N)
RECURSIVE pressureLoopInclusive(_, _)
pressureLoopInclusive(s, i) ==
    IF i <= s.config.pressureIterations
    THEN pressureIteration \o pressureLoopInclusive(s, i + 1)
    ELSE <<>>

\* for (let i = 0; i < this.config.pressureIterations; i++)
RECURSIVE pressureLoop(_, _)
pressureLoop(s, i) ==
    IF i < s.config.pressureIterations
    THEN pressureIteration \o pressureLoop(s, i + 1)
    ELSE <<>>

\* step: Pressure
stepPressure(s) ==
    <<Bind("pressure"),
      UniformOf("texelSize", "velocity.texelSize"),
      Sampler("uDivergence", "divergence", 0)>>
    \o pressureLoop(s, 0)

\* step: Gradient Subtract
stepGradientSubtract ==
    <<Bind("gradientSubtract"),
      UniformOf("texelSize", "velocity.texelSize"),
      Sampler("uPressure", "pressure.read", 0),
      Sampler("uVelocity", "velocity.read", 1),
      Blit("velocity.write"),
      Swap("velocity")>>

\* if (!this.ext.supportLinearFiltering) gl.uniform2f(dyeTexelSize, e)
manualFiltering(s, e) ==
    IF ~s.ext.supportLinearFiltering THEN <<UniformOf("dyeTexelSize", e)>> ELSE <<>>

\* step: Advect velocity
stepAdvectVelocity(s, dt) ==
    <<Bind("advection"),
      UniformOf("texelSize", "velocity.texelSize")>>
    \o manualFiltering(s, "velocity.texelSize")
    \o <<Sampler("uVelocity", "velocity.read", 0),
         Sampler("uSource", "velocity.read", 0),
         Uniform("dt", dt),
         UniformOf("dissipation", "config.velocityDissipation"),
         Blit("velocity.write"),
         Swap("velocity")>>

\* step: Advect dye (the advection program is still bound)
stepAdvectDye(s) ==
    manualFiltering(s, "dye.texelSize")
    \o <<Sampler("uVelocity", "velocity.read", 0),
         Sampler("uSource", "dye.read", 1),
         UniformOf("dissipation", "config.densityDissipation"),
         Blit("dye.write"),
         Swap("dye")>>

\* step with the divergence computed before the vorticity confinement
stepDivergenceEarly(s, dt) ==
    run(call(s, "step"),
        <<Blend(FALSE)>>
        \o stepCurl
        \o stepDivergence
        \o stepVorticity(dt)
        \o stepClearPressure
        \o stepPressure(s)
        \o stepGradientSubtract
        \o stepAdvectVelocity(s, dt)
        \o stepAdvectDye(s))

\* step(dt)
step(s, dt) ==
    run(call(s, "step"),
        <<Blend(FALSE)>>
        \o stepCurl
        \o stepVorticity(dt)
        \o stepDivergence
        \o stepClearPressure
        \o stepPressure(s)
        \o stepGradientSubtract
        \o stepAdvectVelocity(s, dt)
        \o stepAdvectDye(s))

\* render()
render(s) ==
    run(call(s, "render"),
        <<Blend(TRUE),
          Bind("display"),
          Sampler("uTexture", "dye.read", 0),
          Blit("null")>>)

\* pointer.moved = false
clearMoved(s) == [s EXCEPT !.pointers.moved = FALSE]

\* applyInputs()
applyInputs(s) ==
    IF s.pointers.moved
    THEN run(call(clearMoved(call(s, "applyInputs")), "splat"),
             splat(s.pointers.texcoordX, s.pointers.texcoordY,
                   RMul(s.pointers.deltaX, RInt(s.config.splatForce)),
                   RMul(s.pointers.deltaY, RInt(s.config.splatForce)),
                   s.pointers.color))
    ELSE call(s, "applyInputs")

\* the cap on dt in update(), in microseconds (0.016666 s)
DtCapMicros == 16666

\* dt without the cap
frameDtUncapped(s, now) == (now - s.lastUpdateTime) * 1000

\* dt = Math.min((now - this.lastUpdateTime) / 1000, 0.016666), in
\* microseconds
frameDt(s, now) == Min((now - s.lastUpdateTime) * 1000, DtCapMicros)

\* this.lastUpdateTime = now
setLastUpdateTime(s, now) == [s EXCEPT !.lastUpdateTime = now]

\* update() with the pointer input applied before the resize check
updateSplatsFirst(s, now) ==
    render(step(resize(applyInputs(setLastUpdateTime(call(s, "update"), now))),
                frameDt(s, now)))

\* update(), with now the reading of Date.now()
update(s, now) ==
    render(step(applyInputs(resize(setLastUpdateTime(call(s, "update"), now))),
                frameDt(s, now)))

\* an updateConfig that allocates the grids anew when a resolution changed
updateConfigReallocating(s, partial) ==
    IF /\ \/ Merge(s.config, partial).simResolution # s.config.simResolution
          \/ Merge(s.config, partial).dyeResolution # s.config.dyeResolution
       /\ s.canvas.width > 0 /\ s.canvas.height > 0
    THEN initFramebuffers([call(s, "updateConfig") EXCEPT
                              !.config = Merge(@, partial)])
    ELSE [call(s, "updateConfig") EXCEPT !.config = Merge(@, partial)]

\* updateConfig(config)
updateConfig(s, partial) ==
    [call(s, "updateConfig") EXCEPT !.config = Merge(@, partial)]

-----------------------------------------------------------------------------
(* FluidSimulation: the animation loop *)

\* requestAnimationFrame(loop): the callback is pending under a new id
requestAnimationFrame(s) ==
    [s EXCEPT !.window = [pending |-> @.pending \cup {@.requested + 1},
                          requested |-> @.requested + 1]]

\* cancelAnimationFrame(id)
cancelAnimationFrame(s, id) ==
    [s EXCEPT !.window.pending = @ \ {id}]

\* this.animationFrameId = requestAnimationFrame(loop)
setAnimationFrameId(s) == [s EXCEPT !.animationFrameId = s.window.requested]

\* loop: this.update(); this.animationFrameId = requestAnimationFrame(loop)
loop(s, now) ==
    setAnimationFrameId(requestAnimationFrame(update(call(s, "loop"), now)))

\* a start() without the test of animationFrameId
startAlways(s, now) ==
    loop(run(call(call(s, "start"), "splat"),
             splat(<<1, 2>>, <<1, 2>>, RInt(1000), RInt(1000),
                   [r |-> 1, g |-> 1, b |-> 1])),
         now)

\* start()
start(s, now) ==
    IF s.animationFrameId # NoFrame
    THEN call(s, "start")
    ELSE loop(run(call(call(s, "start"), "splat"),
                  splat(<<1, 2>>, <<1, 2>>, RInt(1000), RInt(1000),
                        [r |-> 1, g |-> 1, b |-> 1])),
              now)

\* a stop that forgets the frame it had asked for without cancelling it
stopForgets(s) == [call(s, "stop") EXCEPT !.animationFrameId = NoFrame]

\* stop()
stop(s) ==
    IF s.animationFrameId # NoFrame
    THEN [cancelAnimationFrame(call(s, "stop"), s.animationFrameId)
             EXCEPT !.animationFrameId = NoFrame]
    ELSE call(s, "stop")

-----------------------------------------------------------------------------
(* The scene variant: FluidMaskPlane.  A scene state c is                   *)
(* [sc |-> the component's refs and memos, draws |-> ..., calls |-> ...];   *)
(* a material's sampler uniform holds the texture itself.                   *)

sceneDefaultConfig ==
    [radius              |-> <<3, 10>>,
     strength            |-> <<9, 20>>,
     dissipation         |-> 8,
     curl                |-> 30,
     velocityDissipation |-> <<17, 20>>,
     pressureIterations  |-> 40,
     splatForce          |-> 13500,
     simResolution       |-> 128]

\* getSimResolution(baseRes, width, height): aspectRatio = width / height,
\* Math.round(baseRes * aspectRatio) or Math.round(baseRes / aspectRatio),
\* in double arithmetic
getSimResolution(baseRes, width, height) ==
    The({IF aspectRatio[3] >= -52
         THEN [width |-> FRoundToInt(FTimesInt(baseRes, aspectRatio)),
               height |-> baseRes]
         ELSE [width |-> baseRes,
               height |-> FRoundToInt(FDiv(FInt(baseRes), aspectRatio))] :
            aspectRatio \in {FRatio(width, height)}})

\* the uniforms of the scene's materials
sceneUniformsOf(p) ==
    CASE p = "advection" -> UniformsOf(p) \ {"dyeTexelSize"}
      [] p = "display"   -> {"uMask"}
      [] OTHER           -> UniformsOf(p)

sceneFieldOf(sc, tex) ==
    CASE tex = NullTexture -> "none"
      [] tex \in {sc.dyeRead.texture, sc.dyeWrite.texture} -> "dye"
      [] tex \in {sc.velocityRead.texture, sc.velocityWrite.texture} -> "velocity"
      [] tex \in {sc.pressureRead.texture, sc.pressureWrite.texture} -> "pressure"
      [] tex = sc.divergenceFbo.texture -> "divergence"
      [] tex = sc.curlFbo.texture -> "curl"
      [] OTHER -> "none"

\* useFBO(width, height, settings): the k-th render target of the component
useFBO(k, width, height) == [texture |-> k, width |-> width, height |-> height]

\* the render target a ref or memo of the component holds
targetOf(c, e) ==
    CASE e = "velocityRead.current"  -> c.sc.velocityRead
      [] e = "velocityWrite.current" -> c.sc.velocityWrite
      [] e = "pressureRead.current"  -> c.sc.pressureRead
      [] e = "pressureWrite.current" -> c.sc.pressureWrite
      [] e = "dyeRead.current"       -> c.sc.dyeRead
      [] e = "dyeWrite.current"      -> c.sc.dyeWrite
      [] e = "curlFbo"               -> c.sc.curlFbo
      [] e = "divergenceFbo"         -> c.sc.divergenceFbo

\* the value an expression of the scene's code has when it is evaluated
sceneValueOf(c, e) ==
    CASE e = "texelSize" -> c.sc.texelSize
      [] e = "dyeTexelSize" -> c.sc.dyeTexelSize
      [] e = "size.width / size.height" -> RNorm(c.sc.size.width, c.sc.size.height)
      [] e = "cfg.radius" -> c.sc.config.radius
      [] e = "cfg.radius * 0.5" -> RMul(c.sc.config.radius, <<1, 2>>)
      [] e = "cfg.strength, cfg.strength, cfg.strength" ->
             <<c.sc.config.strength, c.sc.config.strength, c.sc.config.strength>>
      [] e = "cfg.curl" -> c.sc.config.curl
      [] e = "cfg.velocityDissipation" -> c.sc.config.velocityDissipation
      [] e = "cfg.dissipation" -> c.sc.config.dissipation

\* material.uniforms[name].value = v
setUniform(c, material, name, v) == [c EXCEPT !.sc.uniforms[material][name] = v]

\* renderPass(material, target)
renderPass(c, material, target) ==
    LET f == sceneFieldOf(c.sc, target.texture)
        tex(u) == c.sc.uniforms[material][u]
        d == [program  |-> material,
              target   |-> target.texture,
              field    |-> f,
              samples  |-> [u \in Samplers(material) |-> tex(u)],
              read     |-> [u \in Samplers(material) |-> DataOf(c.sc, tex(u))],
              from     |-> [u \in Samplers(material) |-> sceneFieldOf(c.sc, tex(u))],
              uniforms |-> c.sc.uniforms[material],
              blend    |-> FALSE]
    IN  [c EXCEPT !.draws = Append(@, d),
                  !.sc.content = [t \in DOMAIN @ |->
                      IF t = target.texture THEN Data(material, TRUE)
                      ELSE IF f # "none" /\ sceneFieldOf(c.sc, t) = f
                           THEN [@[t] EXCEPT !.current = FALSE]
                      ELSE @[t]]]

\* the statements of the scene
Set(material, name, v) ==
    [op |-> "set", material |-> material, name |-> name, value |-> v]
SetOf(material, name, e) ==
    [op |-> "setOf", material |-> material, name |-> name, value |-> e]
SetTexture(material, name, e) ==
    [op |-> "setTexture", material |-> material, name |-> name, target |-> e]
RenderPass(material, e) == [op |-> "renderPass", material |-> material, target |-> e]
SwapRefs(field) == [op |-> "swapRefs", field |-> field]

\* one statement of the scene
sceneExec(c, i) ==
    CASE i.op = "set"        -> setUniform(c, i.material, i.name, i.value)
      [] i.op = "setOf"      -> setUniform(c, i.material, i.name, sceneValueOf(c, i.value))
      [] i.op = "setTexture" ->
             setUniform(c, i.material, i.name, targetOf(c, i.target).texture)
      [] i.op = "renderPass" ->
             renderPass([c EXCEPT !.calls = Append(@, "renderPass")],
                        i.material, targetOf(c, i.target))
      [] i.op = "swapRefs"   ->
             CASE i.field = "velocity" ->
                      [c EXCEPT !.calls = Append(@, "velocity.swap"),
                                !.sc.velocityRead = c.sc.velocityWrite,
                                !.sc.velocityWrite = c.sc.velocityRead]
               [] i.field = "pressure" ->
                      [c EXCEPT !.calls = Append(@, "pressure.swap"),
                                !.sc.pressureRead = c.sc.pressureWrite,
                                !.sc.pressureWrite = c.sc.pressureRead]
               [] i.field = "dye" ->
                      [c EXCEPT !.calls = Append(@, "dye.swap"),
                                !.sc.dyeRead = c.sc.dyeWrite,
                                !.sc.dyeWrite = c.sc.dyeRead]

\* the statements one after the other, each on the state the one before it
\* left; the first half of the statements, then the second half
RECURSIVE sceneRun(_, _)
sceneRun(c, statements) ==
    IF statements = <<>> \/ DOMAIN c = {} THEN c
    ELSE IF Len(statements) = 1 THEN sceneExec(c, statements[1])
    ELSE sceneRun(sceneRun(c, SubSeq(statements, 1, Len(statements) \div 2)),
                  SubSeq(statements, Len(statements) \div 2 + 1,
                         Len(statements)))

\* splat(x, y, dx, dy) of the scene
sceneSplat(c, x, y, dx, dy) ==
    <<SetTexture("splat", "uTarget", "velocityRead.current"),
      SetOf("splat", "aspectRatio", "size.width / size.height"),
      Set("splat", "point", <<x, y>>),
      Set("splat", "color", <<RMul(dx, RInt(c.sc.config.splatForce)),
                              RMul(dy, RInt(c.sc.config.splatForce)), RInt(0)>>),
      SetOf("splat", "radius", "cfg.radius"),
      RenderPass("splat", "velocityWrite.current"),
      SwapRefs("velocity"),
      SetTexture("splat", "uTarget", "dyeRead.current"),
      SetOf("splat", "color", "cfg.strength, cfg.strength, cfg.strength"),
      SetOf("splat", "radius", "cfg.radius * 0.5"),
      RenderPass("splat", "dyeWrite.current"),
      SwapRefs("dye")>>

\* size.width / size.height
sceneAspect(c) == RNorm(c.sc.size.width, c.sc.size.height)

\* useFrame: Apply pointer input
sceneApplyPointer(c) ==
    IF c.sc.pointer.moved
    THEN sceneRun([c EXCEPT !.sc.pointer.moved = FALSE,
                            !.calls = Append(@, "splat")],
             sceneSplat(c, c.sc.pointer.x, c.sc.pointer.y,
                 IF RLess(sceneAspect(c), RInt(1))
                 THEN RMul(c.sc.pointer.deltaX, sceneAspect(c))
                 ELSE c.sc.pointer.deltaX,
                 IF RLess(RInt(1), sceneAspect(c))
                 THEN RDiv(c.sc.pointer.deltaY, sceneAspect(c))
                 ELSE c.sc.pointer.deltaY))
    ELSE c

\* useFrame: CURL PASS
sceneCurlPass ==
    <<SetTexture("curl", "uVelocity", "velocityRead.current"),
      SetOf("curl", "texelSize", "texelSize"),
      RenderPass("curl", "curlFbo")>>

\* useFrame: VORTICITY PASS
sceneVorticityPass(dt) ==
    <<SetTexture("vorticity", "uVelocity", "velocityRead.current"),
      SetTexture("vorticity", "uCurl", "curlFbo"),
      SetOf("vorticity", "curl", "cfg.curl"),
      Set("vorticity", "dt", dt),
      SetOf("vorticity", "texelSize", "texelSize"),
      RenderPass("vorticity", "velocityWrite.current"),
      SwapRefs("velocity")>>

\* useFrame: DIVERGENCE PASS
sceneDivergencePass ==
    <<SetTexture("divergence", "uVelocity", "velocityRead.current"),
      SetOf("divergence", "texelSize", "texelSize"),
      RenderPass("divergence", "divergenceFbo")>>

\* the pressure decay of the scene's clear pass, in tenths (0.8)
SceneClearValueTenths == 8

\* useFrame: CLEAR PRESSURE
sceneClearPass ==
    <<SetTexture("clear", "uTexture", "pressureRead.current"),
      Set("clear", "value", RNorm(SceneClearValueTenths, 10)),
      RenderPass("clear", "pressureWrite.current"),
      SwapRefs("pressure")>>

\* useFrame: one turn of the pressure loop
scenePressureIteration ==
    <<SetTexture("pressure", "uPressure", "pressureRead.current"),
      RenderPass("pressure", "pressureWrite.current"),
      SwapRefs("pressure")>>

\* for (let i = 0; i < cfg.pressureIterations; i++)
RECURSIVE scenePressureLoop(_, _)
scenePressureLoop(c, i) ==
    IF i < c.sc.config.pressureIterations
    THEN scenePressureIteration \o scenePressureLoop(c, i + 1)
    ELSE <<>>

\* useFrame: PRESSURE ITERATIONS
scenePressurePass(c) ==
    <<SetTexture("pressure", "uDivergence", "divergenceFbo"),
      SetOf("pressure", "texelSize", "texelSize")>>
    \o scenePressureLoop(c, 0)

\* useFrame: GRADIENT SUBTRACT
sceneGradientSubtractPass ==
    <<SetTexture("gradientSubtract", "uPressure", "pressureRead.current"),
      SetTexture("gradientSubtract", "uVelocity", "velocityRead.current"),
      SetOf("gradientSubtract", "texelSize", "texelSize"),
      RenderPass("gradientSubtract", "velocityWrite.current"),
      SwapRefs("velocity")>>

\* useFrame: ADVECT VELOCITY
sceneAdvectVelocityPass(dt) ==
    <<SetTexture("advection", "uVelocity", "velocityRead.current"),
      SetTexture("advection", "uSource", "velocityRead.current"),
      SetOf("advection", "texelSize", "texelSize"),
      Set("advection", "dt", dt),
      SetOf("advection", "dissipation", "cfg.velocityDissipation"),
      RenderPass("advection", "velocityWrite.current"),
      SwapRefs("velocity")>>

\* useFrame: ADVECT DYE (MASK)
sceneAdvectDyePass ==
    <<SetTexture("advection", "uVelocity", "velocityRead.current"),
      SetTexture("advection", "uSource", "dyeRead.current"),
      SetOf("advection", "texelSize", "dyeTexelSize"),
      SetOf("advection", "dissipation", "cfg.dissipation"),
      RenderPass("advection", "dyeWrite.current"),
      SwapRefs("dye")>>

\* useFrame: UPDATE DISPLAY
sceneUpdateDisplay ==
    <<SetTexture("display", "uMask", "dyeRead.current")>>

\* the cap on dt in useFrame, in microseconds (0.016667 s)
SceneDtCapMicros == 16667

\* dt = Math.min((now - lastTime.current) / 1000, 0.016667), in microseconds
sceneFrameDt(c, now) == Min((now - c.sc.lastTime) * 1000, SceneDtCapMicros)

\* the useFrame callback of FluidMaskPlane, with now the reading of
\* Date.now()
useFrame(c, now) ==
    sceneRun(sceneApplyPointer([c EXCEPT !.calls = Append(@, "useFrame"),
                                         !.sc.lastTime = now]),
             sceneCurlPass
             \o sceneVorticityPass(sceneFrameDt(c, now))
             \o sceneDivergencePass
             \o sceneClearPass
             \o scenePressurePass(c)
             \o sceneGradientSubtractPass
             \o sceneAdvectVelocityPass(sceneFrameDt(c, now))
             \o sceneAdvectDyePass
             \o sceneUpdateDisplay)

\* handlePointerMove(e) of the scene; the scene fills the window
sceneHandlePointerMove(sc, clientX, clientY) ==
    LET x == RNorm(clientX, sc.size.width)
        y == RSub(RInt(1), RNorm(clientY, sc.size.height))
        p == sc.pointer
    IN  IF ~p.initialized
        THEN [sc EXCEPT !.pointer = [@ EXCEPT !.initialized = TRUE,
                                              !.x = x, !.y = y,
                                              !.prevX = x, !.prevY = y]]
        ELSE LET dx == RSub(x, p.x)
                 dy == RSub(y, p.y)
             IN  [sc EXCEPT !.pointer = [@ EXCEPT !.prevX = p.x, !.prevY = p.y,
                                                  !.x = x, !.y = y,
                                                  !.deltaX = dx, !.deltaY = dy,
                                                  !.moved = (Abs(dx[1]) > 0
                                                             \/ Abs(dy[1]) > 0)]]

-----------------------------------------------------------------------------
(* Inputs.  A behaviour is driven by one host; a host is the sets its      *)
(* inputs are drawn from.                                                   *)

\* drawable sizes a host gives the canvas (width, height)
DrawableSizes ==
    {<<800, 600>>, <<37, 41>>, <<600, 600>>, <<3, 2>>, <<0, 600>>, <<800, 0>>}

\* pointer positions at two corners of an 800 x 600 drawable, and inside it
CornerPositions == {<<0, 0>>, <<800, 600>>, <<200, 150>>}

\* drawables twice as wide as high, twice as high as wide, and square
ProportionSizes == {<<800, 400>>, <<400, 800>>, <<600, 600>>}

\* pointer positions that differ in x and in y, inside each of them
DiagonalPositions == {<<200, 200>>, <<300, 100>>}

\* readings of Date.now(), milliseconds
ClockReadings == {0, 16, 17, 5016}

\* the config option sets a host passes
ConfigOptions ==
    {[pressureIterations |-> n] : n \in 0..MaxIterations}
    \cup
    {[curl |-> 0, pressure |-> <<1, 2>>, velocityDissipation |-> <<1, 5>>,
      densityDissipation |-> RInt(1), simResolution |-> 64, dyeResolution |-> 256]}

\* the base resolutions a host asks for: the defaults, or the smallest grids
ResolutionOptions ==
    {[pressureIterations |-> 1],
     [pressureIterations |-> 1, simResolution |-> 1, dyeResolution |-> 3]}

\* the dye colours a host configures: white, red
ColourOptions ==
    {[pressureIterations |-> 0, colorG |-> 1, colorB |-> 1],
     [pressureIterations |-> 0, colorG |-> 0, colorB |-> 0]}

\* what can go wrong in a construction: nothing, getContext returns null,
\* a shader does not compile, a program does not link
Faults == {"none", "context", "compile", "link"}

\* the React components that construct and drive a FluidSimulation themselves
Components == {"FluidCanvas", "FluidReveal"}

Hosts ==
    {\* a host that lays the canvas out again and again
     [sizes |-> DrawableSizes, positions |-> {}, clock |-> {16},
      options |-> ResolutionOptions, linear |-> {TRUE},
      faults |-> {"none"}, drives |-> "update", collects |-> FALSE, presses |-> TRUE],
     \* a host that changes the config, on either kind of GPU
     [sizes |-> {<<800, 600>>}, positions |-> {}, clock |-> {16},
      options |-> ConfigOptions, linear |-> BOOLEAN,
      faults |-> {"none"}, drives |-> "update", collects |-> FALSE, presses |-> TRUE],
     \* a host that forwards pointer events
     [sizes |-> {<<800, 600>>}, positions |-> {<<400, 300>>, <<420, 300>>},
      clock |-> {16},
      options |-> {[pressureIterations |-> MaxIterations]}, linear |-> {TRUE},
      faults |-> {"none"}, drives |-> "update", collects |-> FALSE, presses |-> TRUE],
     \* a host that changes the dye colour and forwards pointer events
     [sizes |-> {<<800, 600>>}, positions |-> {<<420, 300>>}, clock |-> {16},
      options |-> ColourOptions, linear |-> {TRUE},
      faults |-> {"none"}, drives |-> "update", collects |-> FALSE, presses |-> TRUE],
     \* a host whose frames come at any time
     [sizes |-> {<<800, 600>>}, positions |-> {}, clock |-> ClockReadings,
      options |-> {[pressureIterations |-> 0]}, linear |-> {TRUE},
      faults |-> {"none"}, drives |-> "update", collects |-> FALSE, presses |-> TRUE]}
    \cup
    \* a host that forwards pointer events from the corners of the canvas
    {[sizes |-> {<<800, 600>>}, positions |-> CornerPositions, clock |-> {16},
      options |-> {[pressureIterations |-> 0]}, linear |-> {TRUE},
      faults |-> {"none"}, drives |-> "update", collects |-> FALSE, presses |-> TRUE]}
    \cup
    \* a host that starts and stops the loop, in a browser that collects
    \* garbage meanwhile
    {[sizes |-> {<<800, 600>>}, positions |-> {}, clock |-> {16},
      options |-> {[pressureIterations |-> 0]}, linear |-> {TRUE},
      faults |-> Faults, drives |-> "start", collects |-> TRUE, presses |-> TRUE]}
    \cup
    \* a FluidCanvas, whose container is laid out with or without an area,
    \* to FluidCanvas, which forwards pointer events and config changes
    {[sizes |-> {<<800, 600>>, <<600, 600>>, <<0, 600>>},
      positions |-> {<<400, 300>>}, clock |-> {16},
      options |-> {[pressureIterations |-> 0]},
      linear |-> {TRUE},
      faults |-> Faults, drives |-> "FluidCanvas", collects |-> FALSE, presses |-> TRUE]}
    \cup
    \* a page that renders a FluidReveal without a config prop (config = {},
    \* the default of the omitted prop), or with a config object it keeps,
    \* and a visitor who moves the pointer over it without pressing
    {[sizes |-> {<<800, 600>>}, positions |-> {<<400, 300>>}, clock |-> {16},
      options |-> {[k \in {} |-> 0]}, linear |-> {TRUE},
      faults |-> {"none", "context"}, drives |-> "FluidReveal",
      collects |-> FALSE, presses |-> FALSE, prop |-> "omitted"],
     [sizes |-> {<<800, 600>>, <<600, 600>>}, positions |-> {<<400, 300>>},
      clock |-> {16},
      options |-> {[pressureIterations |-> 1]}, linear |-> {TRUE},
      faults |-> {"none", "context"}, drives |-> "FluidReveal",
      collects |-> FALSE, presses |-> FALSE, prop |-> "kept"]}
    \cup
    \* a host whose canvas is a strip, 2 x 75 upright or 75 x 2 lying, with
    \* grids of base resolution 3: 3 * 75 / 2 is 112.5
    {[sizes |-> {<<2, 75>>, <<75, 2>>}, positions |-> {}, clock |-> {16},
      options |-> {[pressureIterations |-> 0, simResolution |-> 3,
                    dyeResolution |-> 3]},
      linear |-> {TRUE},
      faults |-> {"none"}, drives |-> "update", collects |-> FALSE, presses |-> TRUE]}
    \cup
    \* hosts that forward pointer events on a canvas of one proportion
    {[sizes |-> {z}, positions |-> DiagonalPositions, clock |-> {16},
      options |-> {[pressureIterations |-> 0]}, linear |-> {TRUE},
      faults |-> {"none"}, drives |-> "update", collects |-> FALSE, presses |-> TRUE] :
         z \in ProportionSizes}

-----------------------------------------------------------------------------
(* Construction *)

NoEvents == [changed |-> FALSE, last |-> "none", reported |-> FALSE, origin |-> "none"]

\* the history after a frame: only that a position was reported is kept
AfterFrame == [NoEvents EXCEPT !.reported = events.reported]

NoScene == [mounted |-> FALSE]

\* a colour (r, g, b, a)
RGBA(r, g, b, a) == <<r, g, b, a>>

\* the context on creation: no program, no texture bound, every uniform 0,
\* the clear colour WebGL starts with
newContext ==
    [program  |-> "none",
     units    |-> [u \in 0..1 |-> NullTexture],
     uniforms |-> [p \in Programs |-> [u \in UniformsOf(p) |-> 0]],
     blend    |-> FALSE,
     textures |-> 0,
     content  |-> [t \in {} |-> Discarded],
     clearColor |-> RGBA(0, 0, 0, 0),
     cleared  |-> [t \in {} |-> RGBA(0, 0, 0, 0)],
     live     |-> {}]

\* this.gl.clearColor(0.0, 0.0, 0.0, 1.0)
clearColor(s) == [s EXCEPT !.gl.clearColor = RGBA(0, 0, 0, 1)]

\* a constructor that allocates the fields before it builds the programs
constructorAllocatesFirst(size, partial, linear, now, fault) ==
    LET cfg == Merge(defaultConfig, partial)
        s0 == [canvas |-> [width |-> size[1], height |-> size[2]],
               ext |-> [supportLinearFiltering |-> linear],
               config |-> cfg,
               dye |-> NoDoubleFBO, velocity |-> NoDoubleFBO,
               divergence |-> NoFBO, curl |-> NoFBO, pressure |-> NoDoubleFBO,
               pointers |-> createPointer(cfg),
               lastUpdateTime |-> now,
               lastWidth |-> 0, lastHeight |-> 0,
               animationFrameId |-> NoFrame, window |-> NoCallbacks,
               gl |-> newContext,
               draws |-> <<>>, calls |-> <<"constructor">>]
    IN  CASE fault = "context" -> s0
          [] fault \in {"compile", "link"} ->
                call(initFramebuffers(clearColor(s0)), "initPrograms")
          [] OTHER -> initFramebuffers(clearColor(s0))

\* new FluidSimulation(canvas, config), on a canvas of the given size whose
\* getContext returns the given context; the programs are new, and so are
\* their uniforms; the result of a construction that throws is the object
\* it had built so far
constructorOn(context, size, partial, linear, now, fault) ==
    LET cfg == Merge(defaultConfig, partial)
        s0 == [canvas |-> [width |-> size[1], height |-> size[2]],
               ext |-> [supportLinearFiltering |-> linear],
               config |-> cfg,
               dye |-> NoDoubleFBO, velocity |-> NoDoubleFBO,
               divergence |-> NoFBO, curl |-> NoFBO, pressure |-> NoDoubleFBO,
               pointers |-> createPointer(cfg),
               lastUpdateTime |-> now,
               lastWidth |-> 0, lastHeight |-> 0,
               animationFrameId |-> NoFrame, window |-> NoCallbacks,
               gl |-> [context EXCEPT !.uniforms = newContext.uniforms],
               draws |-> <<>>, calls |-> <<"constructor">>]
    IN  CASE fault = "context" -> s0
          [] fault \in {"compile", "link"} -> call(clearColor(s0), "initPrograms")
          [] OTHER -> initFramebuffers(clearColor(s0))

\* new FluidSimulation(canvas, config) on a canvas that had no context yet
constructor(size, partial, linear, now, fault) ==
    constructorOn(newContext, size, partial, linear, now, fault)

\* the FluidMaskPlane on mount, on a canvas of the given size
sceneMount(size, partial, now) ==
    LET cfg == Merge(sceneDefaultConfig, partial)
        simRes == getSimResolution(cfg.simResolution, size[1], size[2])
        texelSize == <<RNorm(1, simRes.width), RNorm(1, simRes.height)>>
        initial(p, u) ==
            CASE u \in Samplers(p) \cup {"uMask"} -> NullTexture
              [] u = "texelSize" -> texelSize
              [] u = "aspectRatio" -> RNorm(size[1], size[2])
              [] u = "point" -> <<(<<1, 2>>), (<<1, 2>>)>>
              [] u = "color" -> <<RInt(0), RInt(0), RInt(0)>>
              [] u = "radius" -> cfg.radius
              [] u = "curl" -> cfg.curl
              [] u = "dt" -> 16000
              [] u = "value" -> <<4, 5>>
              [] u = "dissipation" -> cfg.velocityDissipation
    IN  [mounted |-> TRUE,
         size |-> [width |-> size[1], height |-> size[2]],
         config |-> cfg,
         texelSize |-> texelSize,
         dyeTexelSize |-> <<RNorm(1, size[1]), RNorm(1, size[2])>>,
         velocityRead |-> useFBO(1, simRes.width, simRes.height),
         velocityWrite |-> useFBO(2, simRes.width, simRes.height),
         curlFbo |-> useFBO(3, simRes.width, simRes.height),
         divergenceFbo |-> useFBO(4, simRes.width, simRes.height),
         pressureRead |-> useFBO(5, simRes.width, simRes.height),
         pressureWrite |-> useFBO(6, simRes.width, simRes.height),
         dyeRead |-> useFBO(7, size[1], size[2]),
         dyeWrite |-> useFBO(8, size[1], size[2]),
         pointer |-> [x |-> <<1, 2>>, y |-> <<1, 2>>,
                      prevX |-> <<1, 2>>, prevY |-> <<1, 2>>,
                      deltaX |-> <<0, 1>>, deltaY |-> <<0, 1>>,
                      moved |-> FALSE, initialized |-> FALSE],
         lastTime |-> now,
         uniforms |-> [p \in Programs |-> [u \in sceneUniformsOf(p) |-> initial(p, u)]],
         content |-> [t \in 1..8 |-> Data("created", TRUE)]]

\* the simulation's variables while the behaviour is about a scene
Unconstructed ==
    [canvas |-> [width |-> 0, height |-> 0],
     ext |-> [supportLinearFiltering |-> FALSE],
     config |-> defaultConfig,
     dye |-> NoDoubleFBO, velocity |-> NoDoubleFBO,
     divergence |-> NoFBO, curl |-> NoFBO, pressure |-> NoDoubleFBO,
     pointers |-> createPointer(defaultConfig),
     lastUpdateTime |-> 0, lastWidth |-> 0, lastHeight |-> 0,
     animationFrameId |-> NoFrame, window |-> NoCallbacks,
     gl |-> newContext, draws |-> <<>>, calls |-> <<>>]

Start(s) ==
    /\ canvas = s.canvas
    /\ ext = s.ext
    /\ config = s.config
    /\ dye = s.dye
    /\ velocity = s.velocity
    /\ divergence = s.divergence
    /\ curl = s.curl
    /\ pressure = s.pressure
    /\ pointers = s.pointers
    /\ lastUpdateTime = s.lastUpdateTime
    /\ lastWidth = s.lastWidth
    /\ lastHeight = s.lastHeight
    /\ animationFrameId = s.animationFrameId
    /\ window = s.window
    /\ gl = s.gl
    /\ draws = s.draws
    /\ calls = s.calls

Positive(size) == size[1] > 0 /\ size[2] > 0

\* a handler starts with an empty record of draws and calls
Fresh == [This EXCEPT !.draws = <<>>, !.calls = <<>>]

\* useState(""): the mask before the first updateMask()
NoMask == <<"", 0, 0>>

\* maskCanvas.toDataURL() after drawImage(canvas): the picture of the
\* canvas, told apart by its size and by whether a pointer splat has
\* reached the dye of the simulation that drew it
toDataURL(s, painted) ==
    <<IF painted THEN "painted" ELSE "blank", s.canvas.width, s.canvas.height>>

\* applyInputs() issued a splat in the handler
splatted(s) ==
    \E k \in 1..(Len(s.calls) - 1) :
        s.calls[k] = "applyInputs" /\ s.calls[k + 1] = "splat"

\* loop of FluidReveal's effect, without updateMask(): if
\* (simulationRef.current) simulationRef.current.update();
\* animationFrameId = requestAnimationFrame(loop)
revealLoop(s, now) == requestAnimationFrame(update(call(s, "FluidReveal.loop"), now))

\* the effect of FluidReveal up to its first loop(), on a canvas with the
\* given context: the canvas takes the size of the container, the
\* simulation is constructed, and unless that throws the loop is entered
revealEffect(s, context, rect, partial, linear, now, later, fault) ==
    IF fault = "none"
    THEN revealLoop([constructorOn(context, rect, partial, linear, now, fault)
                         EXCEPT !.window = s.window], later)
    ELSE [constructorOn(context, rect, partial, linear, now, fault)
              EXCEPT !.window = s.window]

\* no component is mounted: no timeout, no construction yet, no frame of its
\* own, no render pending, no mask
NoComponent ==
    [mounted |-> FALSE, initTimeout |-> "none", mounts |-> 0,
     constructed |-> 0, frameId |-> NoFrame, render |-> FALSE,
     maskUrl |-> NoMask, painted |-> FALSE]

\* before the host has constructed anything
Init ==
    /\ host \in Hosts
    /\ variant = "none"
    /\ events = NoEvents
    /\ scene = NoScene
    /\ component = NoComponent
    /\ Start(Unconstructed)

\* the host constructs a FluidSimulation on its laid-out canvas
Construct ==
    /\ variant = "none"
    /\ host.drives \notin Components
    /\ \E size \in {z \in host.sizes : Positive(z)},
          partial \in host.options, linear \in host.linear,
          now \in host.clock, fault \in host.faults :
          /\ Commit(constructor(size, partial, linear, now, fault))
          /\ variant' = IF fault = "none" THEN "sim" ELSE "failed"
    /\ UNCHANGED <<events, host, scene, component>>

\* FluidCanvas mounts: the effect sets the initTimeout, observes the
\* container and listens to the window's pointer events
CanvasMount ==
    /\ host.drives = "FluidCanvas"
    /\ ~component.mounted
    /\ component.mounts < MaxMounts
    /\ component' = [component EXCEPT !.mounted = TRUE, !.initTimeout = "pending",
                                      !.mounts = @ + 1, !.constructed = 0]
    /\ Commit(Fresh)
    /\ UNCHANGED <<variant, events, host, scene>>

\* a cleanup that lets go of the simulation without stopping it
cleanupKeepsLoop(s) == call(s, "cleanup")

\* what the cleanup of FluidCanvas does to a simulation it holds:
\* simulationRef.current?.stop()
cleanup(s) == stop(call(s, "cleanup"))

\* the initTimeout of a FluidCanvas: if (!mounted) return; if
\* (!resizeCanvas()) return; try { simulationRef.current = new
\* FluidSimulation(canvas, mergedConfig); simulationRef.current.start() }
\* catch { console.error }
InitTimeout ==
    /\ host.drives = "FluidCanvas"
    /\ component.initTimeout = "pending"
    /\ window.requested < MaxFrames
    /\ \E rect \in host.sizes,
          partial \in host.options, linear \in host.linear,
          now \in host.clock, later \in host.clock, fault \in host.faults :
          CASE ~component.mounted \/ ~Positive(rect) ->
                  /\ component' = [component EXCEPT !.initTimeout = "fired"]
                  /\ Commit(Fresh)
                  /\ variant' = variant
            [] component.mounted /\ Positive(rect) /\ fault = "none" ->
                  /\ component' = [component EXCEPT !.initTimeout = "fired",
                                                    !.constructed = @ + 1]
                  /\ Commit(start([constructor(rect, partial, linear, now, fault)
                                       EXCEPT !.window = window],
                                  later))
                  /\ variant' = "sim"
            [] OTHER ->
                  /\ component' = [component EXCEPT !.initTimeout = "fired",
                                                    !.constructed = @ + 1]
                  /\ Commit([constructor(rect, partial, linear, now, fault)
                                 EXCEPT !.window = window])
                  /\ variant' = IF variant = "sim" THEN "sim" ELSE "failed"
    /\ events' = NoEvents
    /\ UNCHANGED <<host, scene>>

\* the ResizeObserver of a FluidCanvas: if (resizeCanvas() &&
\* simulationRef.current) simulationRef.current.resize()
CanvasResize ==
    /\ host.drives = "FluidCanvas"
    /\ component.mounted
    /\ gl.textures < 8 * MaxGenerations
    /\ \E rect \in host.sizes :
          CASE ~Positive(rect) -> Commit(Fresh)
            [] Positive(rect) /\ variant = "sim" ->
                  Commit(resize([Fresh EXCEPT !.canvas = [width |-> rect[1],
                                                         height |-> rect[2]]]))
            [] OTHER ->
                  Commit([Fresh EXCEPT !.canvas = [width |-> rect[1],
                                                  height |-> rect[2]]])
    /\ UNCHANGED <<variant, events, host, scene, component>>

\* FluidCanvas unmounts: mounted = false; clearTimeout(initTimeout);
\* simulationRef.current?.stop(); simulationRef.current = null; the observer
\* and the listeners are removed
CanvasUnmount ==
    /\ host.drives = "FluidCanvas"
    /\ component.mounted
    /\ component' = [component EXCEPT
                         !.mounted = FALSE,
                         !.initTimeout = IF @ = "pending" THEN "cleared" ELSE @]
    /\ IF variant = "sim"
       THEN Commit(cleanup(Fresh)) /\ variant' = "dropped"
       ELSE Commit(Fresh) /\ variant' = variant
    /\ UNCHANGED <<events, host, scene>>

\* the page mounts its FluidReveal: the effect constructs the simulation and
\* enters the loop, whose updateMask() sets the mask; a construction that
\* throws ends the effect
RevealMount ==
    /\ host.drives = "FluidReveal"
    /\ ~component.mounted
    /\ component.mounts = 0
    /\ \E rect \in host.sizes, partial \in host.options, linear \in host.linear,
          now \in host.clock, fault \in host.faults :
          \E s \in {revealEffect(Fresh, newContext, rect, partial, linear,
                                 now, now, fault)} :
              /\ Commit(s)
              /\ variant' = IF fault = "none" THEN "sim" ELSE "failed"
              /\ component' =
                     IF fault = "none"
                     THEN [component EXCEPT
                              !.mounted = TRUE, !.mounts = @ + 1,
                              !.constructed = 1,
                              !.frameId = s.window.requested,
                              !.painted = FALSE,
                              !.maskUrl = toDataURL(s, FALSE),
                              !.render = TRUE]
                     ELSE [component EXCEPT
                              !.mounted = TRUE, !.mounts = @ + 1,
                              !.constructed = 1, !.frameId = NoFrame,
                              !.painted = FALSE, !.maskUrl = NoMask,
                              !.render = FALSE]
    /\ events' = NoEvents
    /\ UNCHANGED <<host, scene>>

\* the browser runs the pending frame of a FluidReveal: update(),
\* updateMask(), and the next frame is requested; setMaskUrl with another
\* URL makes React render the component again
RevealFrame ==
    /\ host.drives = "FluidReveal"
    /\ variant = "sim"
    /\ component.frameId \in window.pending
    /\ window.requested < MaxFrames
    /\ \E now \in host.clock :
          \E s \in {revealLoop(cancelAnimationFrame(Fresh, component.frameId),
                               now)} :
          \E painted \in {component.painted \/ splatted(s)} :
          \E url \in {toDataURL(s, painted)} :
              /\ Commit(s)
              /\ component' = [component EXCEPT
                                   !.frameId = s.window.requested,
                                   !.painted = painted,
                                   !.maskUrl = url,
                                   !.render = @ \/ url # component.maskUrl]
    /\ events' = AfterFrame
    /\ UNCHANGED <<variant, host, scene>>

\* React renders a FluidReveal again after setMaskUrl.  Without a config
\* prop the parameter default config = {} is a new object in every render:
\* the dependencies of the effect have changed, its cleanup runs
\* (cancelAnimationFrame, removeEventListener) and the effect runs again on
\* the same canvas.  With a config object the page keeps, no effect runs.
RevealRender ==
    /\ host.drives = "FluidReveal"
    /\ component.mounted
    /\ component.render
    /\ IF host.prop = "omitted"
       THEN /\ window.requested < MaxFrames
            /\ \E partial \in host.options, linear \in host.linear,
                  now \in host.clock :
                  \E s \in {revealEffect(
                                cancelAnimationFrame(Fresh, component.frameId),
                                gl, <<canvas.width, canvas.height>>,
                                partial, linear, now, now, "none")} :
                  \E url \in {toDataURL(s, FALSE)} :
                      /\ Commit(s)
                      /\ component' = [component EXCEPT
                                           !.constructed = @ + 1,
                                           !.frameId = s.window.requested,
                                           !.painted = FALSE,
                                           !.maskUrl = url,
                                           !.render = url # component.maskUrl]
            /\ events' = NoEvents
       ELSE /\ Commit(Fresh)
            /\ component' = [component EXCEPT !.render = FALSE]
            /\ events' = events
    /\ UNCHANGED <<variant, host, scene>>

\* the ResizeObserver of a FluidReveal: the canvas and the mask canvas take
\* the size of the container
RevealResize ==
    /\ host.drives = "FluidReveal"
    /\ component.mounted
    /\ \E rect \in host.sizes :
          /\ rect # <<canvas.width, canvas.height>>
          /\ Commit([Fresh EXCEPT !.canvas = [width |-> rect[1],
                                              height |-> rect[2]]])
    /\ UNCHANGED <<variant, events, host, scene, component>>

\* FluidReveal unmounts: cancelAnimationFrame(animationFrameId), the
\* observer and the listeners are removed
RevealUnmount ==
    /\ host.drives = "FluidReveal"
    /\ component.mounted
    /\ component' = [component EXCEPT !.mounted = FALSE, !.render = FALSE]
    /\ Commit(cancelAnimationFrame(Fresh, component.frameId))
    /\ variant' = IF variant = "sim" THEN "dropped" ELSE variant
    /\ UNCHANGED <<events, host, scene>>

\* the host mounts a FluidMaskPlane
Mount ==
    /\ variant = "none"
    /\ host.drives \notin Components
    /\ variant' = "scene"
    /\ \E size \in {z \in host.sizes : Positive(z)},
          partial \in host.options, now \in host.clock :
          scene' = sceneMount(size, partial, now)
    /\ UNCHANGED <<canvas, ext, config, dye, velocity, divergence, curl,
                   pressure, pointers, lastUpdateTime, lastWidth, lastHeight,
                   animationFrameId, window, gl, draws, calls, events, host,
                   component>>

-----------------------------------------------------------------------------
(* Handlers of a FluidSimulation *)

\* the host lays the canvas out anew: canvas.width = ..., canvas.height = ...
SetCanvasSize ==
    /\ variant = "sim"
    /\ host.drives \notin Components
    /\ gl.textures < 8 * MaxGenerations
    /\ \E size \in host.sizes :
          /\ size # <<canvas.width, canvas.height>>
          /\ Commit([Fresh EXCEPT !.canvas = [width |-> size[1], height |-> size[2]]])
    /\ UNCHANGED <<variant, events, host, scene, component>>

\* simulation.resize()
Resize ==
    /\ variant = "sim"
    /\ host.drives \notin Components
    /\ Commit(resize(Fresh))
    /\ UNCHANGED <<variant, events, host, scene, component>>

\* simulation.update(), one frame
Update ==
    /\ variant = "sim"
    /\ host.drives \notin Components
    /\ \E now \in host.clock : Commit(update(Fresh, now))
    /\ events' = AfterFrame
    /\ UNCHANGED <<variant, host, scene, component>>

\* pointerdown on a laid-out canvas
PointerDown ==
    /\ variant = "sim"
    /\ host.presses
    /\ canvas.width > 0 /\ canvas.height > 0
    /\ \E pos \in host.positions :
          Commit(updatePointerDownData(Fresh, pos[1], pos[2]))
    /\ events' = [events EXCEPT !.last = "down", !.reported = TRUE, !.origin = "none"]
    /\ UNCHANGED <<variant, host, scene, component>>

\* pointermove on a laid-out canvas
PointerMove ==
    /\ variant = "sim"
    /\ canvas.width > 0 /\ canvas.height > 0
    /\ \E pos \in host.positions :
          LET s == updatePointerMoveData(Fresh, pos[1], pos[2])
              changed == \/ s.pointers.texcoordX # pointers.texcoordX
                         \/ s.pointers.texcoordY # pointers.texcoordY
          IN  /\ Commit(s)
              /\ events' = [changed |-> events.changed \/ changed,
                            last |-> IF changed THEN "moved" ELSE "still",
                            reported |-> TRUE,
                            origin |-> IF events.reported THEN "reported"
                                                          ELSE "default"]
    /\ UNCHANGED <<variant, host, scene, component>>

\* pointerup
PointerUp ==
    /\ variant = "sim"
    /\ host.presses
    /\ Commit(updatePointerUpData(Fresh))
    /\ UNCHANGED <<variant, events, host, scene, component>>

\* simulation.updateConfig(partial)
UpdateConfig ==
    /\ variant = "sim"
    /\ host.drives # "FluidReveal"
    /\ \E partial \in host.options :
          /\ Merge(config, partial) # config
          /\ Commit(updateConfig(Fresh, partial))
    /\ UNCHANGED <<variant, events, host, scene, component>>

\* simulation.start()
StartLoop ==
    /\ variant = "sim"
    /\ host.drives = "start"
    /\ window.requested < MaxFrames
    /\ \E now \in host.clock : Commit(start(Fresh, now))
    /\ events' = AfterFrame
    /\ UNCHANGED <<variant, host, scene, component>>

\* simulation.stop()
StopLoop ==
    /\ variant = "sim"
    /\ host.drives = "start"
    /\ Commit(stop(Fresh))
    /\ UNCHANGED <<variant, events, host, scene, component>>

\* the browser runs a pending animation frame callback
Frame ==
    /\ variant \in {"sim", "dropped"}
    /\ host.drives # "FluidReveal"
    /\ window.requested < MaxFrames
    /\ \E id \in window.pending, now \in host.clock :
          Commit(loop(cancelAnimationFrame(Fresh, id), now))
    /\ events' = AfterFrame
    /\ UNCHANGED <<variant, host, scene, component>>

\* the browser collects garbage: the textures no field refers to are freed
Collect ==
    /\ variant = "sim"
    /\ host.collects
    /\ gl.live # DOMAIN gl.content
    /\ Commit([Fresh EXCEPT !.gl.live = DOMAIN gl.content])
    /\ UNCHANGED <<variant, events, host, scene, component>>

-----------------------------------------------------------------------------
(* Handlers of a FluidMaskPlane *)

SceneFrame ==
    /\ variant = "scene"
    /\ \E now \in host.clock :
          LET c == useFrame([sc |-> scene, draws |-> <<>>, calls |-> <<>>], now)
          IN  /\ scene' = c.sc
              /\ draws' = c.draws
              /\ calls' = c.calls
    /\ UNCHANGED <<variant, canvas, ext, config, dye, velocity, divergence, curl,
                   pressure, pointers, lastUpdateTime, lastWidth, lastHeight,
                   animationFrameId, window, gl, events, host,
                   component>>

ScenePointerMove ==
    /\ variant = "scene"
    /\ \E pos \in host.positions :
          scene' = sceneHandlePointerMove(scene, pos[1], pos[2])
    /\ draws' = <<>>
    /\ calls' = <<>>
    /\ UNCHANGED <<variant, canvas, ext, config, dye, velocity, divergence, curl,
                   pressure, pointers, lastUpdateTime, lastWidth, lastHeight,
                   animationFrameId, window, gl, events, host,
                   component>>

\* a render with a new config prop: configRef.current = { ...defaultConfig, ...userConfig }
SceneConfig ==
    /\ variant = "scene"
    /\ \E partial \in host.options :
          /\ Merge(sceneDefaultConfig, partial) # scene.config
          /\ scene' = [scene EXCEPT !.config = Merge(sceneDefaultConfig, partial)]
    /\ draws' = <<>>
    /\ calls' = <<>>
    /\ UNCHANGED <<variant, canvas, ext, config, dye, velocity, divergence, curl,
                   pressure, pointers, lastUpdateTime, lastWidth, lastHeight,
                   animationFrameId, window, gl, events, host,
                   component>>

Next ==
    \/ Construct
    \/ CanvasMount
    \/ InitTimeout
    \/ CanvasResize
    \/ CanvasUnmount
    \/ RevealMount
    \/ RevealFrame
    \/ RevealRender
    \/ RevealResize
    \/ RevealUnmount
    \/ StartLoop
    \/ StopLoop
    \/ Frame
    \/ Collect
    \/ Mount
    \/ SetCanvasSize
    \/ Resize
    \/ Update
    \/ PointerDown
    \/ PointerMove
    \/ PointerUp
    \/ UpdateConfig
    \/ SceneFrame
    \/ ScenePointerMove
    \/ SceneConfig

Spec == Init /\ [][Next]_vars

-----------------------------------------------------------------------------
(* What a state shows of the handler that led to it *)

Range(f) == {f[i] : i \in DOMAIN f}

\* the latest handler was update() of a FluidSimulation
Updated == variant = "sim" /\ calls # <<>> /\ calls[1] = "update"

\* the latest handler was the frame callback of a FluidMaskPlane
Framed == variant = "scene" /\ calls # <<>> /\ calls[1] = "useFrame"

\* the pressure iterations configured for the simulator of this behaviour
Iterations ==
    IF variant = "scene" THEN scene.config.pressureIterations
                         ELSE config.pressureIterations

\* a pass is a program drawing into a field
PassOf(d) == <<d.program, d.field>>

IsStepDraw(d) == d.program \notin {"splat", "display"}

\* the passes of the latest handler's step, in the order of their draws
StepPasses ==
    LET stepDraws == SelectSeq(draws, IsStepDraw)
    IN  [i \in DOMAIN stepDraws |-> PassOf(stepDraws[i])]

\* the order of passes of a step with n pressure iterations
PassOrder(n) ==
    <<(<<"curl", "curl">>), (<<"vorticity", "velocity">>),
      (<<"divergence", "divergence">>), (<<"clear", "pressure">>)>>
    \o [i \in 1..n |-> <<"pressure", "pressure">>]
    \o <<(<<"gradientSubtract", "velocity">>), (<<"advection", "velocity">>),
         (<<"advection", "dye">>)>>

\* C1: every step(dt), of the simulation class and of the scene's frame
\* callback, draws its passes in the order curl, vorticity, divergence,
\* pressure reset, the pressure iterations, gradient subtraction, velocity
\* advection, dye advection, none skipped, repeated or out of place.
C1_PassOrder == (Updated \/ Framed) => StepPasses = PassOrder(Iterations)

\* an update() with a splat and MaxIterations pressure iterations has run
C1_Witness ==
    /\ Updated
    /\ "splat" \in Range(calls)
    /\ config.pressureIterations = MaxIterations
    /\ Len(StepPasses) = 7 + MaxIterations

\* C2: in every draw the render target is another buffer than every buffer
\* the draw samples, and read and write of a double buffer are never the
\* same buffer, whatever splats, steps, swaps and reallocations came before.
C2_NoAliasing ==
    /\ \A i \in DOMAIN draws : draws[i].target \notin Range(draws[i].samples)
    /\ variant = "sim" =>
          /\ dye.read.texture # dye.write.texture
          /\ velocity.read.texture # velocity.write.texture
          /\ pressure.read.texture # pressure.write.texture
    /\ variant = "scene" =>
          /\ scene.dyeRead.texture # scene.dyeWrite.texture
          /\ scene.velocityRead.texture # scene.velocityWrite.texture
          /\ scene.pressureRead.texture # scene.pressureWrite.texture

\* an update() that reallocated, splatted and stepped has run
C2_Witness ==
    /\ Updated
    /\ "initFramebuffers" \in Range(calls)
    /\ \E i \in DOMAIN draws : draws[i].program = "splat"
    /\ \E i \in DOMAIN draws : draws[i].program = "advection"

\* the field a sampler of a draw is meant to read
SampledField(d, u) ==
    CASE u = "uVelocity"   -> "velocity"
      [] u = "uPressure"   -> "pressure"
      [] u = "uCurl"       -> "curl"
      [] u = "uDivergence" -> "divergence"
      [] u = "uTexture"    -> IF d.program = "display" THEN "dye" ELSE d.field
      [] u \in {"uSource", "uTarget"} -> d.field

\* the draws before the i-th that wrote field f
WritesBefore(i, f) == {j \in 1..(i - 1) : draws[j].field = f}

Latest(S) == CHOOSE j \in S : \A k \in S : k <= j

\* the latest handler called start(): its splat comes before the frame
Started == variant = "sim" /\ \E i \in DOMAIN calls : calls[i] = "start"

JacobiDraws == {i \in DOMAIN draws : draws[i].program = "pressure"}

\* the swaps of the pressure buffer
PressureSwaps == {k \in DOMAIN calls : calls[k] = "pressure.swap"}

IsDraw(name) == name \in {"blit", "renderPass"}

\* the position in calls of the i-th draw
DrawCall(i) ==
    CHOOSE k \in DOMAIN calls :
        /\ IsDraw(calls[k])
        /\ Cardinality({j \in 1..k : IsDraw(calls[j])}) = i

\* C4: a step with N = pressureIterations makes exactly N Jacobi draws, each
\* reading pressure.read and writing pressure.write and each followed by one
\* swap of the pressure buffer, which is swapped N + 1 times in the step.
C4_JacobiCount ==
    (Updated \/ Framed) =>
        /\ Cardinality(JacobiDraws) = Iterations
        /\ Cardinality(PressureSwaps) = Iterations + 1
        /\ \A i \in JacobiDraws :
              /\ draws[i].field = "pressure"
              /\ draws[i].from["uPressure"] = "pressure"
              /\ draws[i].read["uPressure"].current
              /\ draws[i].target # draws[i].samples["uPressure"]
              /\ DrawCall(i) < Len(calls)
              /\ calls[DrawCall(i) + 1] = "pressure.swap"

\* a step with MaxIterations > 0 pressure iterations has run
C4_Witness ==
    /\ Updated
    /\ config.pressureIterations = MaxIterations
    /\ MaxIterations > 0
    /\ Cardinality(JacobiDraws) = MaxIterations

\* the draws of the dye advection
DyeAdvections ==
    {i \in DOMAIN draws : draws[i].program = "advection" /\ draws[i].field = "dye"}

\* C5: in FluidSimulation.step the texel size of the backtrace of the dye
\* advection draw is the dye grid's, (1/dye.width, 1/dye.height), with and
\* without linear filtering.
C5_DyeBacktraceTexel ==
    Updated =>
        \A i \in DyeAdvections :
            draws[i].uniforms[simBacktraceUniform] =
                <<RNorm(1, dye.width), RNorm(1, dye.height)>>

\* the latest handler made a resize check: resize() or update()
Checked == variant = "sim" /\ calls # <<>> /\ calls[1] \in {"resize", "update"}

\* the latest handler allocated the grids, for the drawable as it is now
Allocated == variant = "sim" /\ "initFramebuffers" \in Range(calls)

\* C6: a resize check on a drawable whose size has not changed since the
\* grids were allocated allocates nothing and keeps every field's buffers,
\* the check of the first update() after construction included.
C6_NoReallocUnchanged ==
    [][(Allocated /\ Checked' /\ canvas' = canvas) =>
           /\ ~Allocated'
           /\ gl'.textures = gl.textures
           /\ DOMAIN gl'.content = DOMAIN gl.content]_vars

\* the calls of splat()
Splats == {k \in DOMAIN calls : calls[k] = "splat"}

\* C7: an update() issues one splat if the pointer's position changed through
\* pointerMove events since the previous update(), and none otherwise,
\* whatever pointerDown, pointerMove and pointerUp events came between.
C7_SplatIffMoved ==
    [][Updated' =>
           Cardinality(Splats') =
               IF events.changed THEN 1 ELSE 0]_vars

IsMethod(name) ==
    name \in {"update", "resize", "initFramebuffers", "applyInputs", "splat",
              "step", "render"}

\* the methods of the class the latest handler ran, in order
Methods == SelectSeq(calls, IsMethod)

\* the draws of the display program
Displays == {i \in DOMAIN draws : draws[i].program = "display"}

\* the size of the drawable is not the one resize() saw last, and has an area
SizeChanged ==
    /\ canvas.width # lastWidth \/ canvas.height # lastHeight
    /\ canvas.width > 0 /\ canvas.height > 0

\* C8: an update() runs, once each and in this order, the resize check (with
\* the reallocation if the size changed), the splat of the pending pointer
\* movement (if there is one), step and render; the splat's draws go to
\* buffers that are still the fields' buffers after the frame, and render
\* samples the dye the frame's step wrote.
C8_UpdateOrder ==
    [][Updated' =>
           /\ Methods' =
                  <<"update", "resize">>
                  \o (IF SizeChanged THEN <<"initFramebuffers">> ELSE <<>>)
                  \o <<"applyInputs">>
                  \o (IF pointers.moved THEN <<"splat">> ELSE <<>>)
                  \o <<"step", "render">>
           /\ \A i \in DOMAIN draws' :
                  draws'[i].program = "splat" =>
                      draws'[i].target \in DOMAIN gl'.content
           /\ Displays' = {Len(draws')}
           /\ draws'[Len(draws')].read["uTexture"] = Data("advection", TRUE)
           /\ draws'[Len(draws')].samples["uTexture"] =
                  draws'[Latest(DyeAdvections')].target]_vars

\* an update() that reallocated and then splatted has run
C8_Witness ==
    /\ Updated
    /\ Methods = <<"update", "resize", "initFramebuffers", "applyInputs",
                   "splat", "step", "render">>
    /\ Len(draws) = 2 + 7 + config.pressureIterations + 1

\* the draws whose program takes dt
DtDraws == {i \in DOMAIN draws : draws[i].program \in {"vorticity", "advection"}}

\* min(elapsed, cap), elapsed in milliseconds, cap and result in microseconds
Capped(elapsed, cap) == IF elapsed * 1000 < cap THEN elapsed * 1000 ELSE cap

\* a cap within a microsecond of 1/60 s
IsSixtieth(cap) == cap * 60 - 1000000 \in -60..60

\* C9: the dt of a step is min(elapsed, cap) for the time elapsed since the
\* previous frame, 5 seconds included, where cap is 1/60 s to the
\* microsecond (0.016666 in update(), 0.016667 in the scene's frame
\* callback); so dt never exceeds the cap and is the cap once the elapsed
\* time reaches it.
C9_DtCapped ==
    [][/\ IsSixtieth(DtCapMicros) /\ IsSixtieth(SceneDtCapMicros)
       /\ Updated' =>
              \A i \in DtDraws' :
                  draws'[i].uniforms["dt"] =
                      Capped(lastUpdateTime' - lastUpdateTime, DtCapMicros)
       /\ Framed' =>
              \A i \in DtDraws' :
                  draws'[i].uniforms["dt"] =
                      Capped(scene'.lastTime - scene.lastTime, SceneDtCapMicros)]_vars

\* an update() has run seconds after the frame before it, with dt the cap
C9_Witness ==
    /\ Updated
    /\ lastUpdateTime = 5016
    /\ \E i \in DtDraws : draws[i].uniforms["dt"] = DtCapMicros

\* the drawable has no area
ZeroArea == canvas.width = 0 \/ canvas.height = 0

\* C10: a resize check on a drawable of zero width or zero height allocates
\* nothing: resize() leaves the five fields and the context as they were,
\* and an update() then steps on the buffers, of the dimensions, it had.
C10_ZeroAreaResize ==
    [][(variant = "sim" /\ ZeroArea /\ Checked') =>
           /\ ~Allocated'
           /\ gl'.textures = gl.textures
           /\ DOMAIN gl'.content = DOMAIN gl.content
           /\ <<dye'.width, dye'.height>> = <<dye.width, dye.height>>
           /\ <<velocity'.width, velocity'.height>> = <<velocity.width, velocity.height>>
           /\ <<pressure'.width, pressure'.height>> = <<pressure.width, pressure.height>>
           /\ divergence' = divergence
           /\ curl' = curl
           /\ calls'[1] = "resize" =>
                  /\ calls' = <<"resize">>
                  /\ dye' = dye /\ velocity' = velocity /\ pressure' = pressure
                  /\ gl' = gl]_vars

\* resize() has seen a drawable of zero width or height after the grids
\* were allocated
C10_Witness ==
    /\ variant = "sim"
    /\ calls = <<"resize">>
    /\ ZeroArea
    /\ <<lastWidth, lastHeight>> = <<canvas.width, canvas.height>>
    /\ DOMAIN gl.content # {}
    /\ velocity.read.texture \in DOMAIN gl.content

-----------------------------------------------------------------------------
(* Grid dimensions *)

\* max(w/h, h/w)
AspectAtLeastOne(w, h) == IF w >= h THEN RNorm(w, h) ELSE RNorm(h, w)

\* the grid of base resolution base on a w x h drawable: round(base *
\* aspectRatio) along the longer screen axis, round(base) along the shorter
GridFor(w, h, base) ==
    LET long == Round(RMul(RInt(base), AspectAtLeastOne(w, h)))
        short == Round(RInt(base))
    IN  IF w > h THEN <<long, short>>
        ELSE IF w < h THEN <<short, long>>
        ELSE <<short, short>>

SizeOf(b) == <<b.width, b.height>>

\* the textures of the five fields
FieldTextures ==
    {dye.read.texture, dye.write.texture, velocity.read.texture,
     velocity.write.texture, pressure.read.texture, pressure.write.texture,
     divergence.texture, curl.texture}

C11_WitnessHalf ==
    /\ Allocated
    /\ <<canvas.width, canvas.height>> = <<3, 2>>
    /\ SizeOf(velocity) = <<2, 1>>
    /\ SizeOf(dye) = <<5, 3>>

-----------------------------------------------------------------------------
(* Pointer input to splat *)

\* the draws of the splat program
SplatDraws == {i \in DOMAIN draws : draws[i].program = "splat"}

\* the first draw after the i-th that has the sampler u
NextReader(i, u) ==
    CHOOSE j \in (i + 1)..Len(draws) :
        /\ u \in DOMAIN draws[j].samples
        /\ \A k \in (i + 1)..(j - 1) : u \notin DOMAIN draws[k].samples

\* the centre of the field
Centre == <<(<<1, 2>>), (<<1, 2>>)>>

\* C12: when a pointerDown and then a pointerMove to another position have
\* come since the previous frame, update() calls splat once: one draw into
\* velocity.write at the pointer's position with the payload delta *
\* splatForce, not zero, and one into dye.write with the pointer's colour,
\* each followed by its swap, so that velocity.read and dye.read are the
\* buffers the splat wrote (the step's first pass and its dye advection read
\* them) and are buffers of the fields after the frame; for a move from
\* (400, 300) to (420, 300) on 800 x 600 the centre (0.5, 0.5) lies within the
\* falloff of the splat, with and without the shader's scaling of the x
\* distance by the aspect ratio.
C12_DownMoveUpdate ==
    [][(Updated' /\ pointers.down /\ events.last = "moved") =>
           /\ Cardinality(Splats') = 1
           /\ SplatDraws' = {1, 2}
           /\ draws'[1].field = "velocity" /\ draws'[2].field = "dye"
           /\ draws'[1].from["uTarget"] = "velocity"
           /\ draws'[2].from["uTarget"] = "dye"
           /\ draws'[1].uniforms["point"] = <<pointers.texcoordX, pointers.texcoordY>>
           /\ draws'[2].uniforms["point"] = draws'[1].uniforms["point"]
           /\ draws'[1].uniforms["color"] =
                  <<RMul(pointers.deltaX, RInt(config.splatForce)),
                    RMul(pointers.deltaY, RInt(config.splatForce)), RInt(0)>>
           /\ draws'[1].uniforms["color"] # <<RInt(0), RInt(0), RInt(0)>>
           /\ draws'[2].uniforms["color"] =
                  <<RInt(pointers.color.r), RInt(pointers.color.g),
                    RInt(pointers.color.b)>>
           /\ draws'[2].uniforms["color"] # <<RInt(0), RInt(0), RInt(0)>>
           /\ draws'[NextReader(1, "uVelocity")'].samples["uVelocity"] = draws'[1].target
           /\ draws'[NextReader(1, "uVelocity")'].read["uVelocity"] = Data("splat", TRUE)
           /\ draws'[Latest(DyeAdvections')].samples["uSource"] = draws'[2].target
           /\ draws'[Latest(DyeAdvections')].read["uSource"] = Data("splat", TRUE)
           /\ {draws'[1].target, draws'[2].target} \subseteq DOMAIN gl'.content
           /\ (<<pointers.prevTexcoordX, pointers.prevTexcoordY>> = Centre
                   /\ pointers.texcoordX = <<21, 40>>) =>
                  /\ RLess(splatFalloffExponent(Centre, draws'[1].uniforms["point"],
                                                draws'[1].uniforms["radius"]),
                           RInt(1))
                  /\ RLess(sceneSplatFalloffExponent(Centre,
                               draws'[1].uniforms["point"],
                               draws'[1].uniforms["radius"],
                               draws'[1].uniforms["aspectRatio"]),
                           RInt(1))]_vars

\* update() has run after pointerDown(400, 300) and pointerMove(420, 300) on
\* an 800 x 600 drawable: a splat at (0.525, 0.5) with velocity payload
\* (150, 0)
C12_Witness ==
    /\ Updated
    /\ pointers.down
    /\ <<canvas.width, canvas.height>> = <<800, 600>>
    /\ <<pointers.prevTexcoordX, pointers.prevTexcoordY>> = Centre
    /\ Cardinality(Splats) = 1
    /\ draws[1].uniforms["point"] = <<(<<21, 40>>), (<<1, 2>>)>>
    /\ draws[1].uniforms["color"] = <<RInt(150), RInt(0), RInt(0)>>
    /\ draws[2].uniforms["color"] = <<RInt(1), RInt(1), RInt(1)>>

-----------------------------------------------------------------------------
(* Aspect correction *)

\* width / height of the drawable
Aspect == RNorm(canvas.width, canvas.height)

Wide(a) == RLess(RInt(1), a)
Narrow(a) == RLess(a, RInt(1))

\* the latest handler was updatePointerMoveData
Moved == variant = "sim" /\ calls = <<"updatePointerMoveData">>

\* config.splatRadius / 100
BaseRadius == RDiv(config.splatRadius, RInt(100))

\* C13: with aspectRatio = width / height of the drawable, updatePointerMoveData
\* stores as deltaX the change of the x coordinate, times aspectRatio exactly
\* when aspectRatio < 1, and as deltaY the change of the y coordinate, divided
\* by aspectRatio exactly when aspectRatio > 1; a splat of update() has the
\* radius splatRadius / 100, times aspectRatio exactly when aspectRatio > 1;
\* the scene's frame callback scales its pointer deltas by the same two
\* branches; on a square drawable none of the three is changed.
C13_AspectBranches ==
    [][/\ Moved' =>
              /\ pointers'.deltaX =
                     IF Narrow(Aspect)
                     THEN RMul(RSub(pointers'.texcoordX, pointers.texcoordX), Aspect)
                     ELSE RSub(pointers'.texcoordX, pointers.texcoordX)
              /\ pointers'.deltaY =
                     IF Wide(Aspect)
                     THEN RDiv(RSub(pointers'.texcoordY, pointers.texcoordY), Aspect)
                     ELSE RSub(pointers'.texcoordY, pointers.texcoordY)
       /\ Updated' =>
              \A i \in SplatDraws' :
                  draws'[i].uniforms["radius"] =
                      IF Wide(Aspect) THEN RMul(BaseRadius, Aspect) ELSE BaseRadius
       /\ (Framed' /\ scene.pointer.moved) =>
              draws'[1].uniforms["color"] =
                  <<RMul(IF Narrow(sceneAspect([sc |-> scene]))
                         THEN RMul(scene.pointer.deltaX, sceneAspect([sc |-> scene]))
                         ELSE scene.pointer.deltaX,
                         RInt(scene.config.splatForce)),
                    RMul(IF Wide(sceneAspect([sc |-> scene]))
                         THEN RDiv(scene.pointer.deltaY, sceneAspect([sc |-> scene]))
                         ELSE scene.pointer.deltaY,
                         RInt(scene.config.splatForce)),
                    RInt(0)>>]_vars

\* on an 800 x 400 drawable update() has splatted a movement of (1/8, 1/4):
\* radius 2 * 1/400, deltaX 1/8, deltaY 1/4 / 2
C13_Witness ==
    /\ Updated
    /\ Aspect = RInt(2)
    /\ SplatDraws # {}
    /\ draws[1].uniforms["radius"] = <<1, 200>>
    /\ RSub(pointers.texcoordX, pointers.prevTexcoordX) = <<1, 8>>
    /\ RSub(pointers.texcoordY, pointers.prevTexcoordY) = <<1, 4>>
    /\ pointers.deltaX = <<1, 8>>
    /\ pointers.deltaY = <<1, 8>>

\* the same movement of the pointer on a 400 x 800 drawable: radius 1/400,
\* deltaX 1/4 / 2, deltaY 1/8
C13_WitnessNarrow ==
    /\ Updated
    /\ Aspect = <<1, 2>>
    /\ SplatDraws # {}
    /\ draws[1].uniforms["radius"] = <<1, 400>>
    /\ RSub(pointers.texcoordX, pointers.prevTexcoordX) = <<1, 4>>
    /\ pointers.deltaX = <<1, 8>>
    /\ pointers.deltaY = <<1, 8>>

\* and on a 600 x 600 drawable: nothing is scaled
C13_WitnessSquare ==
    /\ Updated
    /\ Aspect = RInt(1)
    /\ SplatDraws # {}
    /\ draws[1].uniforms["radius"] = <<1, 400>>
    /\ pointers.deltaX = <<1, 6>>
    /\ pointers.deltaY = <<1, 6>>

\* the scene's frame callback has splatted on a canvas that is not square
C13_WitnessScene ==
    /\ Framed
    /\ "splat" \in Range(calls)
    /\ scene.size.width = 2 * scene.size.height
    /\ draws[1].uniforms["color"][2] # RMul(scene.pointer.deltaY, RInt(scene.config.splatForce))

\* the movement of the pointer that a pending splat is about
RawDeltaX == RSub(pointers.texcoordX, pointers.prevTexcoordX)
RawDeltaY == RSub(pointers.texcoordY, pointers.prevTexcoordY)

\* payload / splatForce for the deltas dx, dy
Payload(dx, dy) ==
    <<RMul(dx, RInt(config.splatForce)), RMul(dy, RInt(config.splatForce)), RInt(0)>>

\* an update() splats on a drawable of proportion 2:1 or 1:2
SplatsOffSquare ==
    /\ variant = "sim"
    /\ pointers.moved
    /\ Aspect \in {RInt(2), <<1, 2>>}

\* C14 as the specification words it: on a 2:1 drawable the horizontal delta
\* and the radius of a splat are scaled by the aspect ratio; on a 1:2
\* drawable the vertical delta is divided by the aspect ratio.
C14_AsStated ==
    [][(SplatsOffSquare /\ Updated') =>
           IF Aspect = RInt(2)
           THEN /\ draws'[1].uniforms["color"][1] =
                       RMul(RMul(RawDeltaX, Aspect), RInt(config.splatForce))
                /\ draws'[1].uniforms["radius"] = RMul(BaseRadius, Aspect)
           ELSE draws'[1].uniforms["color"][2] =
                    RMul(RDiv(RawDeltaY, Aspect), RInt(config.splatForce))]_vars

\* C14, amended: on a 2:1 drawable the vertical delta of a splat is divided
\* by the aspect ratio and its radius is multiplied by the aspect ratio, the
\* horizontal delta being the pointer's; on a 1:2 drawable the horizontal
\* delta is multiplied by the aspect ratio instead, and the vertical delta and
\* the radius are not changed.
C14_AspectSplat ==
    [][(SplatsOffSquare /\ Updated') =>
           /\ SplatDraws' = {1, 2}
           /\ IF Aspect = RInt(2)
              THEN /\ draws'[1].uniforms["color"] =
                          Payload(RawDeltaX, RDiv(RawDeltaY, Aspect))
                   /\ \A i \in SplatDraws' :
                          draws'[i].uniforms["radius"] = RMul(BaseRadius, Aspect)
              ELSE /\ draws'[1].uniforms["color"] =
                          Payload(RMul(RawDeltaX, Aspect), RawDeltaY)
                   /\ \A i \in SplatDraws' :
                          draws'[i].uniforms["radius"] = BaseRadius]_vars

\* update() has splatted a movement of (1/4, 1/8) on a 400 x 800 drawable:
\* payload (1/4 * 1/2, 1/8) * 6000, radius 1/400
C14_Witness ==
    /\ Updated
    /\ Aspect = <<1, 2>>
    /\ SplatDraws = {1, 2}
    /\ <<RawDeltaX, RawDeltaY>> = <<(<<1, 4>>), (<<1, 8>>)>>
    /\ draws[1].uniforms["color"] = <<RInt(750), RInt(750), RInt(0)>>
    /\ draws[1].uniforms["radius"] = <<1, 400>>

-----------------------------------------------------------------------------
(* Config *)

\* the configured dye colour
ConfiguredColour == <<RInt(config.colorR), RInt(config.colorG), RInt(config.colorB)>>

\* C15: the payload of every dye splat of an update() is the dye colour of
\* the config (colorR, colorG, colorB) as it is in that frame, also when
\* updateConfig changed the colour since the frame before.
C15_SplatColour ==
    Updated =>
        \A i \in SplatDraws :
            draws[i].field = "dye" => draws[i].uniforms["color"] = ConfiguredColour

\* the latest handler was updateConfig
Configured == variant = "sim" /\ calls # <<>> /\ calls[1] = "updateConfig"

\* config with the options of partial set to partial's values
WithOptions(partial) ==
    [k \in DOMAIN config |-> IF k \in DOMAIN partial THEN partial[k] ELSE config[k]]

\* the draws of program p into field f
DrawsOf(p, f) == {i \in DOMAIN draws : draws[i].program = p /\ draws[i].field = f}

C16_WitnessNextFrame ==
    /\ Updated
    /\ config.curl = 0
    /\ config.pressureIterations = MaxIterations
    /\ Cardinality(JacobiDraws) = MaxIterations
    /\ \E i \in DrawsOf("vorticity", "velocity") : draws[i].uniforms["curl"] = 0

-----------------------------------------------------------------------------
(* Swap *)

\* how often the latest handler swapped field f
SwapCount(f) == Cardinality({k \in DOMAIN calls : calls[k] = f})

\* the (read, write) pair of a double buffer after k swaps
AfterSwaps(read, write, k) == IF k % 2 = 0 THEN <<read, write>> ELSE <<write, read>>

\* C17: swap() of a double buffer makes read the buffer that was write and
\* write the buffer that was read, and changes nothing else; swap(); swap()
\* gives back the pair it started from.  So a frame that does not reallocate
\* creates no buffer, and leaves each double buffer with the pair it had when
\* it swapped it an even number of times and with the exchanged pair when
\* odd, in the class and in the scene.
C17_SwapInvolution ==
    [][/\ variant = "sim" =>
              \A d \in {dye, velocity, pressure} :
                  /\ swap(d) = [d EXCEPT !.read = d.write, !.write = d.read]
                  /\ swap(swap(d)) = d
                  /\ {swap(d).read.texture, swap(d).write.texture} =
                         {d.read.texture, d.write.texture}
       /\ variant = "sim" =>
              \A f \in {"dye", "velocity", "pressure"} :
                  /\ exec(This, Swap(f)).gl = gl
                  /\ run(This, <<Swap(f), Swap(f)>>) =
                         [This EXCEPT !.calls = calls \o <<f \o ".swap", f \o ".swap">>]
       /\ (Updated' /\ ~Allocated') =>
              /\ gl'.textures = gl.textures
              /\ DOMAIN gl'.content = DOMAIN gl.content
              /\ <<dye'.read, dye'.write>> =
                     AfterSwaps(dye.read, dye.write, SwapCount("dye.swap")')
              /\ <<velocity'.read, velocity'.write>> =
                     AfterSwaps(velocity.read, velocity.write, SwapCount("velocity.swap")')
              /\ <<pressure'.read, pressure'.write>> =
                     AfterSwaps(pressure.read, pressure.write, SwapCount("pressure.swap")')
       /\ Framed' =>
              /\ <<scene'.dyeRead, scene'.dyeWrite>> =
                     AfterSwaps(scene.dyeRead, scene.dyeWrite, SwapCount("dye.swap")')
              /\ <<scene'.velocityRead, scene'.velocityWrite>> =
                     AfterSwaps(scene.velocityRead, scene.velocityWrite,
                                SwapCount("velocity.swap")')
              /\ <<scene'.pressureRead, scene'.pressureWrite>> =
                     AfterSwaps(scene.pressureRead, scene.pressureWrite,
                                SwapCount("pressure.swap")')]_vars

\* an update() that did not reallocate has swapped dye twice (splat, dye
\* advection), velocity four times and pressure three times
C17_Witness ==
    /\ Updated /\ ~Allocated
    /\ SwapCount("dye.swap") = 2
    /\ SwapCount("velocity.swap") = 4
    /\ SwapCount("pressure.swap") = 3
    /\ dye.read.texture < dye.write.texture
    /\ pressure.read.texture > pressure.write.texture

-----------------------------------------------------------------------------
(* Construction failure *)

\* the fields of a simulation that has allocated nothing
NothingAllocated ==
    /\ gl.textures = 0
    /\ DOMAIN gl.content = {}
    /\ dye = NoDoubleFBO /\ velocity = NoDoubleFBO /\ pressure = NoDoubleFBO
    /\ divergence = NoFBO /\ curl = NoFBO
    /\ "initFramebuffers" \notin Range(calls)

\* nothing is scheduled, nothing was drawn
NothingRunning ==
    /\ animationFrameId = NoFrame
    /\ window.pending = {}
    /\ draws = <<>>

\* C18: a construction that fails (no context, a shader that does not
\* compile, a program that does not link) throws out of the constructor
\* before any field buffer is allocated, and leaves the host without a
\* simulation and without a frame loop; as long as the host has no
\* simulation nothing is allocated, scheduled or drawn, and the only way
\* out is a new construction that succeeds; a construction that succeeds
\* has allocated the fields.
C18_ConstructionFailure ==
    [][/\ variant' = "failed" =>
             /\ NothingAllocated'
             /\ NothingRunning'
       /\ variant' = "failed" /\ calls' # <<>> /\ calls'[1] = "constructor" =>
             /\ variant \in {"none", "dropped", "failed"}
             /\ calls' \in {<<"constructor">>, <<"constructor", "initPrograms">>}
       /\ variant = "failed" /\ variant' # "failed" =>
             /\ variant' = "sim"
             /\ component'.mounted
       /\ variant \in {"none", "failed"} /\ variant' = "sim" =>
             /\ calls'[1] = "constructor"
             /\ calls'[2] = "initFramebuffers"
             /\ gl'.textures >= 8
             /\ dye' # NoDoubleFBO /\ velocity' # NoDoubleFBO]_vars

\* a FluidCanvas whose simulation failed to compile or link its programs
C18_Witness ==
    /\ variant = "failed"
    /\ host.drives = "FluidCanvas"
    /\ calls = <<"constructor", "initPrograms">>
    /\ NothingAllocated
    /\ NothingRunning

\* a FluidCanvas that got no GPU context
C18_WitnessContext ==
    /\ variant = "failed"
    /\ host.drives = "FluidCanvas"
    /\ calls = <<"constructor">>

\* a FluidCanvas whose construction succeeded, and started the loop
C18_WitnessStarted ==
    /\ variant = "sim"
    /\ host.drives = "FluidCanvas"
    /\ calls[1] = "constructor"
    /\ animationFrameId # NoFrame

-----------------------------------------------------------------------------
(* The animation loop *)

\* the latest handler was the loop's animation frame callback
Looped == variant = "sim" /\ calls # <<>> /\ calls[1] = "loop"

\* C19: stop() cancels the pending animation frame callback and draws
\* nothing; while the simulation is stopped no callback of its loop is
\* pending (the frame a FluidReveal requests for its own loop, which calls
\* update() itself, is the component's), so the loop runs no update(); and
\* only start() gets a stopped simulation to run again.
C19_StopStops ==
    [][/\ calls' = <<"stop">> =>
             /\ animationFrameId' = NoFrame
             /\ window'.pending = {}
             /\ draws' = <<>>
             /\ window'.requested = window.requested
       /\ variant = "sim" /\ animationFrameId = NoFrame =>
             /\ window.pending \ {component.frameId} = {}
             /\ ~Looped'
             /\ animationFrameId' # NoFrame => Started'
       /\ Looped' =>
             /\ animationFrameId \in window.pending
             /\ "update" \in Range(calls')]_vars

\* stop() on a simulation whose loop had run a frame from the callback
C19_Witness ==
    /\ variant = "sim"
    /\ calls = <<"stop">>
    /\ window.requested >= 2
    /\ window.pending = {}
    /\ animationFrameId = NoFrame

\* start() after that stop(): the loop runs again
C19_WitnessRestart ==
    /\ Started
    /\ "update" \in Range(calls)
    /\ window.requested >= 3
    /\ window.pending = {animationFrameId}

\* a frame from the callback of a loop that was started again
C19_WitnessFrame ==
    /\ Looped
    /\ window.requested = MaxFrames
    /\ host.drives = "start"

-----------------------------------------------------------------------------
(* Pointer normalisation *)

\* the latest handler was pointerDown or pointerMove
Pointed ==
    /\ variant = "sim"
    /\ calls \in {<<"updatePointerDownData">>, <<"updatePointerMoveData">>}

\* a / b of the rational q, as an equation of integers
IsRatio(q, a, b) == q[1] * b = a * q[2]

\* C20: pointerDown and pointerMove at the drawable pixel (x, y), within
\* the drawable, store (x / width, 1 - y / height): both coordinates are in
\* [0, 1], and the pixel row 0 is Y = 1.
C20_PointerNormalised ==
    [][Pointed' =>
          /\ \E pos \in host.positions :
                /\ IsRatio(pointers'.texcoordX, pos[1], canvas.width)
                /\ IsRatio(pointers'.texcoordY, canvas.height - pos[2],
                           canvas.height)
                /\ pos[2] = 0 => pointers'.texcoordY = RInt(1)
          /\ ~RLess(pointers'.texcoordX, RInt(0))
          /\ ~RLess(RInt(1), pointers'.texcoordX)
          /\ ~RLess(pointers'.texcoordY, RInt(0))
          /\ ~RLess(RInt(1), pointers'.texcoordY)]_vars

\* a pointerMove to the top-left corner of the drawable: (0, 1)
C20_Witness ==
    /\ calls = <<"updatePointerMoveData">>
    /\ host.positions = CornerPositions
    /\ pointers.texcoordX = RInt(0)
    /\ pointers.texcoordY = RInt(1)

\* a pointerDown at the bottom-right corner of the drawable: (1, 0)
C20_WitnessDown ==
    /\ calls = <<"updatePointerDownData">>
    /\ host.positions = CornerPositions
    /\ pointers.texcoordX = RInt(1)
    /\ pointers.texcoordY = RInt(0)

-----------------------------------------------------------------------------
(* Buffers on creation *)

\* the zero vector
Zero == RGBA(0, 0, 0, 0)

\* C21: every buffer a field holds was cleared, when createFBO made it, to
\* the zero vector in every channel.
C21_ClearedToZero ==
    variant = "sim" => \A t \in DOMAIN gl.cleared : gl.cleared[t] = Zero

\* what the code does: every buffer was cleared to (0, 0, 0, 1), at
\* construction and at every reallocation
C21_ClearedToOpaqueBlack ==
    variant = "sim" =>
        /\ DOMAIN gl.cleared = DOMAIN gl.content
        /\ \A t \in DOMAIN gl.cleared : gl.cleared[t] = RGBA(0, 0, 0, 1)

-----------------------------------------------------------------------------
(* Buffers of earlier generations *)

\* the buffers the five fields hold
CurrentGeneration ==
    {dye.read.texture, dye.write.texture,
     velocity.read.texture, velocity.write.texture,
     pressure.read.texture, pressure.write.texture,
     divergence.texture, curl.texture}

\* C22: the live GPU buffers are the eight of the current generation, in
\* every state of a simulation, whatever reallocations came before.
C22_OnlyCurrentLive ==
    variant = "sim" =>
        /\ gl.live = CurrentGeneration
        /\ Cardinality(gl.live) = 8

\* what the code does: it deletes nothing, so every buffer ever created is
\* live until the browser collects it
C22_LiveUntilCollected ==
    variant = "sim" =>
        /\ CurrentGeneration \subseteq gl.live
        /\ Cardinality(CurrentGeneration) = 8
        /\ ~host.collects => gl.live = 1..gl.textures

-----------------------------------------------------------------------------
(* The initial splat of start() *)

\* the simulation has just been constructed, or is being constructed by the
\* handler that goes on to start it
FreshlyConstructed ==
    \/ variant = "none"
    \/ variant = "sim" /\ calls # <<>> /\ calls[1] = "constructor"

\* the fields were allocated anew after the handler's splat
ReallocatedAfterSplat ==
    \E i \in DOMAIN calls : \E j \in DOMAIN calls :
        i < j /\ calls[i] = "splat" /\ calls[j] = "initFramebuffers"

\* the first pass of the handler's step read the velocity the splat wrote,
\* and its dye advection the dye the splat wrote
SplatReachesStep ==
    /\ \A i \in DOMAIN draws :
          draws[i].program = "curl" =>
              draws[i].read["uVelocity"] = Data("splat", TRUE)
    /\ \A i \in DyeAdvections :
          draws[i].read["uSource"] = Data("splat", TRUE)

\* C23: a start() on a freshly constructed simulation splats, and nothing
\* between that splat and the first frame's step discards the fields: the
\* step reads the velocity and the dye the splat wrote.
C23_InitialSplatKept ==
    [][FreshlyConstructed /\ Started' =>
          /\ ~ReallocatedAfterSplat'
          /\ SplatReachesStep']_vars

\* what the code does: the first update() of a start() on a freshly
\* constructed simulation allocates the fields anew, and its step reads
\* buffers that hold nothing but the clear of their creation
C23_InitialSplatLost ==
    [][FreshlyConstructed /\ Started' =>
          /\ ReallocatedAfterSplat'
          /\ \A i \in DOMAIN draws' :
                draws'[i].program = "curl" =>
                    draws'[i].read["uVelocity"] = Data("created", TRUE)]_vars

-----------------------------------------------------------------------------
(* FluidCanvas: mount, delayed initialization, unmount *)

\* the latest handler constructed a FluidSimulation
Constructed == calls # <<>> /\ calls[1] = "constructor"

C24_WitnessEarly ==
    /\ host.drives = "FluidCanvas"
    /\ ~component.mounted
    /\ component.initTimeout = "cleared"
    /\ variant = "none"

\* mounted again, with a simulation constructed by the second mount
C24_WitnessRemount ==
    /\ host.drives = "FluidCanvas"
    /\ component.mounts = MaxMounts
    /\ component.constructed = 1
    /\ variant = "sim"
    /\ Looped

-----------------------------------------------------------------------------
(* The position a pointerMove is measured from *)

\* the latest handler ran applyInputs() and applyInputs() issued a splat
AppliedInput ==
    /\ variant = "sim"
    /\ \E k \in 1..(Len(calls) - 1) :
          calls[k] = "applyInputs" /\ calls[k + 1] = "splat"

\* the splat of applyInputs() into the velocity
InputSplat == CHOOSE i \in SplatDraws : draws[i].field = "velocity"

\* C25 as the specification words it: every splat issued by applyInputs
\* carries a delta between two pointer positions reported by pointer events;
\* the pointer's initial position (0, 0) never enters a delta, also when the
\* first pointerMove comes without a pointerDown before it.
C25_DeltaBetweenReported ==
    [][AppliedInput' => events.origin = "reported"]_vars

\* what the code does: the delta of a splat is the aspect-corrected
\* difference between the position of the latest pointerMove and the
\* position the pointer held before it, which is the initial (0, 0) of
\* createPointer() when that pointerMove was the first pointer event the
\* simulation received.
C25_DeltaFromStoredPosition ==
    [][AppliedInput' =>
           /\ events.origin \in {"default", "reported"}
           /\ draws'[InputSplat'].uniforms["color"] =
                  Payload(pointers.deltaX, pointers.deltaY)
           /\ events.origin = "default" =>
                  /\ pointers.prevTexcoordX = RInt(0)
                  /\ pointers.prevTexcoordY = RInt(0)]_vars

\* a pointerMove stores the aspect-corrected difference to the position the
\* pointer held, reported or not
C25_MoveFromStoredPosition ==
    [][Moved' =>
           /\ pointers'.prevTexcoordX = pointers.texcoordX
           /\ pointers'.prevTexcoordY = pointers.texcoordY
           /\ pointers'.deltaX = correctDeltaX(Fresh, RawDeltaX')
           /\ pointers'.deltaY = correctDeltaY(Fresh, RawDeltaY')
           /\ ~events.reported =>
                  pointers.texcoordX = RInt(0) /\ pointers.texcoordY = RInt(0)]_vars

\* the scene's handlePointerMove only stores its first position: no delta
\* is measured from the pointer's initial position there
C25_SceneFirstMoveStored ==
    [][variant = "scene" /\ variant' = "scene" /\ ~scene.pointer.initialized =>
           /\ ~scene'.pointer.moved
           /\ scene'.pointer.deltaX = scene.pointer.deltaX
           /\ scene'.pointer.deltaY = scene.pointer.deltaY]_vars

\* a splat whose delta was measured from the initial position
C25_WitnessDefault ==
    /\ AppliedInput
    /\ draws[InputSplat].uniforms["color"] # <<RInt(0), RInt(0), RInt(0)>>
    /\ pointers.prevTexcoordX = RInt(0) /\ pointers.prevTexcoordY = RInt(0)
    /\ ~pointers.down

-----------------------------------------------------------------------------
(* Blending during the simulation draws *)

\* the draws of a simulation: every draw but the display's
SimulationDraws == {i \in DOMAIN draws : draws[i].program # "display"}

\* the latest handler was a frame of a FluidSimulation, run by the host or
\* by the loop
FrameRan ==
    /\ variant = "sim"
    /\ \E k \in DOMAIN calls : calls[k] = "update"

\* C26 as the specification words it: every splat draw and every pass of
\* step is executed with blending disabled, in every frame of any sequence
\* of update() calls; blending is enabled only for the render draw.
C26_SimulationDrawsUnblended ==
    variant = "sim" => \A i \in SimulationDraws : ~draws[i].blend

\* what the code does: the passes of step are drawn with blending disabled
\* and the display with blending enabled, which is how the frame leaves the
\* context; the splat of applyInputs() comes before step's gl.disable and
\* is drawn with blending as the context was left: disabled in a context
\* just created, enabled after any earlier frame.
C26_SplatDrawnAsLeft ==
    [][FrameRan' =>
           /\ gl'.blend
           /\ \A i \in DOMAIN draws' :
                  draws'[i].blend =
                      CASE draws'[i].program = "display" -> TRUE
                        [] draws'[i].program = "splat"   -> ~Constructed' /\ gl.blend
                        [] OTHER                          -> FALSE]_vars

\* a frame whose splat draws were blended
C26_WitnessBlendedSplat ==
    /\ FrameRan
    /\ AppliedInput
    /\ \A i \in SplatDraws : draws[i].blend

-----------------------------------------------------------------------------
(* FluidReveal: the simulation of a mounted component *)

\* a FluidReveal stays mounted over the step
StaysMounted ==
    /\ host.drives = "FluidReveal"
    /\ component.mounted /\ component'.mounted

\* the step puts another simulation, with new fields, into simulationRef
Replaced ==
    /\ Constructed'
    /\ dye' # NoDoubleFBO
    /\ dye'.read.texture # dye.read.texture
    /\ velocity'.read.texture # velocity.read.texture

\* C27 as the specification words it: while a FluidReveal stays mounted and
\* its config prop is omitted or unchanged, the simulation created at mount
\* is the one every later frame drives: mask updates and the renders they
\* cause never construct a new simulation or discard the fields.
C27_SimulationOfMountKept ==
    [][StaysMounted => ~Constructed' /\ component'.constructed = component.constructed]_vars

\* with a config object the page keeps, the claim holds: no step of a mounted
\* FluidReveal constructs a simulation, and one that has a simulation keeps
\* it
C27_KeptConfigKeepsSimulation ==
    [][StaysMounted /\ host.prop = "kept" =>
           /\ ~Constructed'
           /\ component'.constructed = 1
           /\ variant = "sim" => dye' # NoDoubleFBO /\ velocity' # NoDoubleFBO]_vars

\* without a config prop every render that follows a change of the mask
\* constructs a new simulation, whose fields are new, whose pointer is that
\* of createPointer() and whose first updateMask() shows a blank picture
C27_OmittedConfigRebuilds ==
    [][StaysMounted /\ host.prop = "omitted" /\ component.render
           /\ component' # component =>
           \/ component' = [component EXCEPT !.frameId = component'.frameId,
                                              !.painted = component'.painted,
                                              !.maskUrl = component'.maskUrl]
              /\ ~Constructed'
           \/ /\ Replaced
              /\ component'.constructed = component.constructed + 1
              /\ ~component'.painted
              /\ component'.maskUrl[1] = "blank"
              /\ ~pointers'.moved
              /\ animationFrameId' = NoFrame
              /\ Cardinality(window'.pending) = 1]_vars

\* a mounted FluidReveal on its third simulation
C27_WitnessThird ==
    /\ host.drives = "FluidReveal"
    /\ component.mounted
    /\ component.constructed = 3
    /\ Constructed

\* a mounted FluidReveal with a kept config whose mask shows a splat
C27_WitnessKept ==
    /\ host.drives = "FluidReveal" /\ host.prop = "kept"
    /\ component.mounted
    /\ component.painted
    /\ ~component.render

-----------------------------------------------------------------------------
(* start() on a running simulation *)

\* the latest handler was start(), called by the host
StartCalled == variant = "sim" /\ calls # <<>> /\ calls[1] = "start"

\* the number of update() calls of the latest handler
Updates == Cardinality({k \in DOMAIN calls : calls[k] = "update"})

\* C28: however often start() is called, with or without a stop() between,
\* at most one animation frame callback is pending and a callback that runs
\* calls update() once; a start() on a running simulation changes nothing:
\* no frame is requested, no splat issued and no field touched; a start() on
\* a simulation that is not running issues the one initial splat, runs one
\* update() and requests one frame.
C28_StartOnce ==
    [][/\ Cardinality(window'.pending) <= 1
       /\ Updates' <= 1
       /\ StartCalled' =>
             IF animationFrameId # NoFrame
             THEN /\ calls' = <<"start">>
                  /\ draws' = <<>>
                  /\ Fresh' = Fresh
             ELSE /\ window.pending = {}
                  /\ Cardinality(Splats') <= 2
                  /\ calls'[2] = "splat"
                  /\ Updates' = 1
                  /\ window'.pending = {animationFrameId'}
                  /\ window'.requested = window.requested + 1]_vars

\* start() was called on a running simulation
C28_Witness ==
    /\ StartCalled
    /\ calls = <<"start">>
    /\ animationFrameId # NoFrame
    /\ window.pending = {animationFrameId}
    /\ window.requested >= 2

\* start() was called on a simulation that was not running
C28_WitnessStarted ==
    /\ StartCalled
    /\ Updates = 1
    /\ window.pending = {animationFrameId}

-----------------------------------------------------------------------------
(* The sign of dt *)

\* the cap on dt of the simulator of this behaviour
CapOfVariant == IF variant = "scene" THEN SceneDtCapMicros ELSE DtCapMicros

\* C29 as the specification words it: the dt a frame passes to its step is
\* never negative, 0 <= dt <= cap, whatever the clock readings of
\* consecutive frames are, a reading earlier than the previous one included.
C29_DtNeverNegative ==
    \A i \in DtDraws :
        /\ 0 <= draws[i].uniforms["dt"]
        /\ draws[i].uniforms["dt"] <= CapOfVariant

\* what the code does: dt is capped from above only; it is negative exactly
\* when Date.now() reads earlier than it did at the previous frame (or at
\* construction, for the first frame), and then it is the whole difference
C29_DtNegativeWhenClockEarlier ==
    [][/\ Updated' =>
              \A i \in DtDraws' :
                  /\ draws'[i].uniforms["dt"] <= DtCapMicros
                  /\ draws'[i].uniforms["dt"] < 0 <=> lastUpdateTime' < lastUpdateTime
                  /\ lastUpdateTime' < lastUpdateTime =>
                        draws'[i].uniforms["dt"] =
                            (lastUpdateTime' - lastUpdateTime) * 1000
       /\ Framed' =>
              \A i \in DtDraws' :
                  /\ draws'[i].uniforms["dt"] <= SceneDtCapMicros
                  /\ draws'[i].uniforms["dt"] < 0 <=> scene'.lastTime < scene.lastTime]_vars

\* an update() whose clock reading was earlier than that of the frame before
C29_WitnessEarlier ==
    /\ Updated
    /\ DtDraws # {}
    /\ \A i \in DtDraws : draws[i].uniforms["dt"] = -16000

-----------------------------------------------------------------------------
(* The grids of the scene and of the class for one drawable *)

\* the grid getResolution(base) gives on a width x height drawable
ClassGrid(base, width, height) ==
    getResolution([canvas |-> [width |-> width, height |-> height]], base)

\* the grid a buffer has
GridOf(b) == [width |-> b.width, height |-> b.height]

\* the scene mounts in this step
SceneMounts == variant = "none" /\ variant' = "scene"

\* the grid the class would compute for the drawable and the base resolution
\* the scene has
ClassGridOfScene ==
    ClassGrid(scene.config.simResolution, scene.size.width, scene.size.height)

\* the grid the scene would compute for the drawable and the base resolution
\* the class has
SceneGridOfClass ==
    getSimResolution(config.simResolution, canvas.width, canvas.height)

\* C30: for every positive integer drawable width and height and every
\* positive integer base resolution, getSimResolution(base, width, height)
\* of the scene is the grid getResolution(base) of the class gives on a
\* drawable of that size: a grid the class allocates is the one the scene
\* would compute, and the grid the scene mounts with is the one the class
\* would compute.
C30_SameGridDimensions ==
    [][/\ Allocated' /\ Positive(<<canvas'.width, canvas'.height>>) =>
              SceneGridOfClass' = GridOf(velocity')
       /\ SceneMounts => ClassGridOfScene' = GridOf(scene'.velocityRead)]_vars

\* what the code does: the two agree on a drawable at least as wide as high,
\* where both round base * (width / height); on a higher one the class rounds
\* base * (1 / (width / height)) and the scene base / (width / height), both
\* give base to the width, and the heights are at most one apart
C30_SameGridUnlessHigher ==
    [][/\ Allocated' /\ Positive(<<canvas'.width, canvas'.height>>) =>
              /\ SceneGridOfClass'.width = velocity'.width
              /\ canvas'.width >= canvas'.height =>
                     SceneGridOfClass'.height = velocity'.height
              /\ SceneGridOfClass'.height - velocity'.height \in {-1, 0, 1}
       /\ SceneMounts =>
              /\ ClassGridOfScene'.width = scene'.velocityRead.width
              /\ scene'.size.width >= scene'.size.height =>
                     ClassGridOfScene'.height = scene'.velocityRead.height
              /\ ClassGridOfScene'.height - scene'.velocityRead.height
                     \in {-1, 0, 1}]_vars

\* the class has allocated a 3 x 113 grid for base 3 on a 2 x 75 drawable
C30_WitnessClassStrip ==
    /\ Allocated
    /\ <<canvas.width, canvas.height>> = <<2, 75>>
    /\ config.simResolution = 3
    /\ GridOf(velocity) = [width |-> 3, height |-> 113]

\* the scene has mounted with a 3 x 112 grid for base 3 on a 2 x 75 drawable
C30_WitnessSceneStrip ==
    /\ variant = "scene"
    /\ <<scene.size.width, scene.size.height>> = <<2, 75>>
    /\ scene.config.simResolution = 3
    /\ GridOf(scene.velocityRead) = [width |-> 3, height |-> 112]

\* both have a 113 x 3 grid on the lying strip
C30_WitnessLying ==
    \/ /\ Allocated
       /\ <<canvas.width, canvas.height>> = <<75, 2>>
       /\ GridOf(velocity) = [width |-> 113, height |-> 3]
    \/ /\ variant = "scene"
       /\ <<scene.size.width, scene.size.height>> = <<75, 2>>
       /\ GridOf(scene.velocityRead) = [width |-> 113, height |-> 3]

====
